---- MODULE Spec2Model ----
(***************************************************************************)
(* Model of the question sampler of mock-interview-assist                  *)
(* (lib/markdownParser.ts: shuffleArray, selectRandomQuestions).           *)
(*                                                                         *)
(* A question is a record [id, weekNumber, difficulty]; the other fields   *)
(* of ParsedQuestion are never read by the sampler.  Arrays are sequences; *)
(* array indexes of the source are 0-based, sequence indexes are 1-based.  *)
(* Math.random is a nondeterministic draw.                                 *)
(***************************************************************************)
EXTENDS Integers, Sequences, FiniteSets, TLC

\* ------------------------------------------------------------------ bounds
MaxFreePool == 3      \* longest pool with the cells in every order
MaxPool == 4          \* longest pool with the cells in ascending order
MaxCount == 5         \* largest requested count
MaxNeg == 2           \* the smallest requested count is 0 - MaxNeg
MaxSupply == 2        \* synthetic pools: questions per (week, difficulty) cell
MaxShuffleLen == 4    \* longest array handed directly to shuffleArray
MaxCalls == 2         \* repeated calls: number of calls with the same pool and count
MaxCallPool == 2      \* repeated calls: longest pool
MaxIrregularPool == 2    \* longest pool with repeated ids or irregular weekNumbers
MaxIrregularCount == 2   \* largest count requested from such a pool
MaxContentLen == 3       \* POST /api/score: longest LLM reply, in tokens
MaxSessionQuestions == 2 \* createSession: most technical questions of a session
MaxSessions == 2         \* store: number of sessions created
MaxInterviewQuestions == 1  \* interview page: most technical questions of a session
MaxCompletions == 2      \* interview page: number of 'Complete & Continue' presses
MaxKeywords == 2         \* interview page: most keywords of a question
MaxRetries == 1          \* review page: number of retry presses
MaxEnqueued == 4         \* ScoringQueue: number of enqueue calls
MaxHistory == 2          \* /api/history: sessions kept (the 100 of slice(0, 100), scaled down)
MaxBatch == 2            \* /api/history: requests handled concurrently

\* ------------------------------------------------------- program constants
FallbackWeek == 99    \* q.weekNumber || 99

Difficulties == {"beginner", "intermediate", "advanced"}
Levels == {"entry", "experienced"}
WeekList == <<2, 10>>
WeekNumbers == {WeekList[k] : k \in DOMAIN WeekList}
undefined == 0 - 1    \* stands for an absent weekNumber

VARIABLES
    questions,        \* argument: the pool
    count,            \* argument: requested number of questions
    interviewLevel,   \* argument: 'entry' | 'experienced'
    byWeek,           \* Map<number, ParsedQuestion[]>, entries in insertion order
    weeks,            \* Array.from(byWeek.keys()).sort()
    index,            \* forEach index of the week being processed (0-based)
    weekSelected,     \* weekSelected of the week being processed
    selected,         \* accumulated selection
    result,           \* return value of selectRandomQuestions
    pc,               \* position in selectRandomQuestions
    array,            \* shuffleArray: argument
    shuffled,         \* shuffleArray: the copy being permuted
    loopI,            \* shuffleArray: loop variable i
    draws,            \* shuffleArray: the values of j drawn so far, in order
    shufflePc,        \* position in shuffleArray
    calls,            \* number of calls of selectRandomQuestions made so far
    apiKey,           \* POST: process.env.OPENAI_API_KEY
    bodyValid,        \* POST: the request body parses and holds a question
    content,          \* POST: the content of the LLM reply
    response,         \* POST: the JSON answer
    routePc,          \* POST: position in the handler
    session,          \* store: the interview session, <<>> for null
    nextSessionId,    \* store: the id generateSessionId gives next
    isProcessing,     \* interview page: isProcessing
    pending,          \* interview page: handleComplete calls awaiting their fetch
    completions,      \* interview page: number of 'Complete & Continue' presses so far
    editingId,        \* review page: editingId, <<>> for null
    editScore,        \* review page: editScore
    editFeedback,     \* review page: editFeedback
    retryingId,       \* review page: retryingId, <<>> for null
    retries,          \* review page: handleRetryScoring calls awaiting their fetch
    retryCount,       \* review page: number of retry presses so far
    isGeneratingPDF,  \* review page: isGeneratingPDF (handleGeneratePDF awaits its fetch)
    queue,            \* ScoringQueue: this.queue (item numbers)
    processing,       \* ScoringQueue: this.processing
    queuePc,          \* ScoringQueue: the suspended activations of processQueue
    inFlight,         \* ScoringQueue: generateScore calls that have not settled
    started,          \* ScoringQueue: items in the order generateScore was called
    promises,         \* ScoringQueue: how each promise of enqueue was settled
    enqueued,         \* ScoringQueue: number of enqueue calls so far
    history,          \* /api/history: content of interview-history.json
    requests,         \* /api/history: the handlers running, by request number
    arrived,          \* /api/history: the requests received so far
    base              \* /api/history: the history when no handler was running

vars == <<questions, count, interviewLevel, byWeek, weeks, index, weekSelected,
          selected, result, pc, array, shuffled, loopI, draws, shufflePc,
          calls, apiKey, bodyValid, content, response, routePc,
          session, nextSessionId, isProcessing, pending, completions,
          editingId, editScore, editFeedback, retryingId, retries, retryCount,
          isGeneratingPDF,
          queue, processing, queuePc, inFlight, started, promises, enqueued,
          history, requests, arrived, base>>

samplerVars == <<questions, count, interviewLevel, byWeek, weeks, index,
                 weekSelected, selected, result, pc>>
shuffleVars == <<array, shuffled, loopI, draws, shufflePc>>
callerVars == <<calls>>
reviewVars == <<editingId, editScore, editFeedback, retryingId, retries,
                retryCount, isGeneratingPDF>>
queueVars == <<queue, processing, queuePc, inFlight, started, promises, enqueued>>
historyVars == <<history, requests, arrived, base>>
outsideSampler == <<shuffleVars, callerVars, apiKey, bodyValid, content, response, routePc,
                    session, nextSessionId, isProcessing, pending, completions,
                    reviewVars, queueVars, historyVars>>
outsideShuffle == <<samplerVars, callerVars, apiKey, bodyValid, content, response, routePc,
                    session, nextSessionId, isProcessing, pending, completions,
                    reviewVars, queueVars, historyVars>>
outsideRoute == <<samplerVars, shuffleVars, callerVars,
                  session, nextSessionId, isProcessing, pending, completions,
                  reviewVars, queueVars, historyVars>>
outsideStore == <<samplerVars, shuffleVars, callerVars,
                  apiKey, bodyValid, content, response, routePc,
                  reviewVars, queueVars, historyVars>>
outsideReview == <<samplerVars, shuffleVars, callerVars,
                   apiKey, bodyValid, content, response, routePc,
                   nextSessionId, isProcessing, pending, completions,
                   queueVars, historyVars>>
outsideQueue == <<samplerVars, shuffleVars, callerVars,
                  apiKey, bodyValid, content, response, routePc,
                  session, nextSessionId, isProcessing, pending, completions,
                  reviewVars, historyVars>>
outsideHistory == <<samplerVars, shuffleVars, callerVars,
                    apiKey, bodyValid, content, response, routePc,
                    session, nextSessionId, isProcessing, pending, completions,
                    reviewVars, queueVars>>

\* ----------------------------------------------------------------- helpers
Min(a, b) == IF a < b THEN a ELSE b
Max(a, b) == IF a > b THEN a ELSE b
Range(s) == {s[k] : k \in DOMAIN s}

\* Math.floor(a / b) for b > 0
MathFloorDiv(a, b) == a \div b

\* a % b of JavaScript (the sign follows the dividend), b > 0
JsRem(a, b) == IF a >= 0 THEN a % b ELSE 0 - ((0 - a) % b)

\* mutant: Math.floor instead of Math.round
MathRoundTruncating(tenths) == tenths \div 10

\* Math.round(n / 10): round half up (towards +infinity); the ratios are
\* kept in tenths, and for the quotas of this model the double products
\* weekCount * 0.1, * 0.4, * 0.5 round as the exact ones do
MathRound(tenths) == (tenths + 5) \div 10

\* mutant: an index loop for (k = 0; k < end; k++) push(s[k]) instead of slice;
\* reading past the end yields undefined
undefinedQuestion == [id |-> 0, weekNumber |-> undefined, difficulty |-> "beginner"]
SliceByIndexLoop(s, end) ==
    [k \in 1..Max(end, 0) |-> IF k <= Len(s) THEN s[k] ELSE undefinedQuestion]

\* Array.prototype.slice(0, end)
Slice(s, end) ==
    LET n == Len(s)
        e == IF end < 0 THEN Max(n + end, 0) ELSE Min(end, n)
    IN  SubSeq(s, 1, e)

\* ------------------------------------------------------------ shuffleArray
\* mutant: shuffled[i] = shuffled[j] without saving shuffled[i]
SwapStepOverwriting(sh, i, j) ==
    [k \in 1..Len(sh) |-> IF k = i + 1 THEN sh[j + 1] ELSE sh[k]]

\* [shuffled[i], shuffled[j]] = [shuffled[j], shuffled[i]]
SwapStep(sh, i, j) ==
    [k \in 1..Len(sh) |-> IF k = i + 1 THEN sh[j + 1]
                          ELSE IF k = j + 1 THEN sh[i + 1]
                          ELSE sh[k]]

\* mutant: Math.floor(Math.random() * i)
DrawRangeExclusive(i) == 0..(i - 1)

\* Math.floor(Math.random() * (i + 1))
DrawRange(i) == 0..i

\* the loop of shuffleArray for i, i-1, .., 1 with the draws d (first draw first)
RECURSIVE FisherYates(_, _, _)
FisherYates(sh, i, d) ==
    IF i > 0 THEN FisherYates(SwapStep(sh, i, Head(d)), i - 1, Tail(d))
    ELSE sh

shuffleArray(arr, d) == FisherYates(arr, Len(arr) - 1, d)

\* all sequences of draws of a call on an array of length n
RECURSIVE DrawSeqs(_)
DrawSeqs(n) ==
    IF n <= 1 THEN {<<>>}
    ELSE {<<j>> \o d : j \in DrawRange(n - 1), d \in DrawSeqs(n - 1)}

\* every value a call of shuffleArray(arr) can return
ShuffleOutcomes(arr) == {shuffleArray(arr, d) : d \in DrawSeqs(Len(arr))}

\* --------------------------------------------------- selectRandomQuestions
\* const weekNum = q.weekNumber || 99  (undefined and 0 are falsy)
WeekKey(q) ==
    IF q.weekNumber = undefined \/ q.weekNumber = 0 THEN FallbackWeek
    ELSE q.weekNumber

MapHas(m, key) == \E e \in 1..Len(m) : m[e].key = key
MapGet(m, key) == m[CHOOSE e \in 1..Len(m) : m[e].key = key].val
MapKeys(m) == [e \in 1..Len(m) |-> m[e].key]

\* questions.forEach(q => { ... byWeek.get(weekNum)!.push(q) })
RECURSIVE GroupByWeek(_, _)
GroupByWeek(m, qs) ==
    IF Len(qs) = 0 THEN m
    ELSE LET q == Head(qs)
             weekNum == WeekKey(q)
             m1 == IF MapHas(m, weekNum) THEN m
                   ELSE Append(m, [key |-> weekNum, val |-> <<>>])
             m2 == [e \in 1..Len(m1) |->
                      IF m1[e].key = weekNum
                      THEN [key |-> weekNum, val |-> Append(m1[e].val, q)]
                      ELSE m1[e]]
         IN  GroupByWeek(m2, Tail(qs))

\* String(n) for n >= 0, as its sequence of decimal digits
RECURSIVE DecimalString(_)
DecimalString(n) == IF n < 10 THEN <<n>> ELSE Append(DecimalString(n \div 10), n % 10)

\* s < t for strings (by code unit, a proper prefix is smaller)
StringLess(s, t) ==
    \/ \E k \in 1..Min(Len(s), Len(t)) :
          /\ s[k] < t[k]
          /\ \A l \in 1..(k - 1) : s[l] = t[l]
    \/ /\ Len(s) < Len(t)
       /\ \A l \in 1..Len(s) : s[l] = t[l]

\* Array.prototype.sort() without a compare function: elements are ordered
\* by their string conversions (the keys of a Map are pairwise distinct)
RECURSIVE ArraySort(_)
ArraySort(keys) ==
    IF Len(keys) = 0 THEN <<>>
    ELSE LET m == CHOOSE k \in 1..Len(keys) :
                     \A l \in 1..Len(keys) :
                        l # k => StringLess(DecimalString(keys[k]), DecimalString(keys[l]))
             rest == [k \in 1..(Len(keys) - 1) |->
                        IF k < m THEN keys[k] ELSE keys[k + 1]]
         IN  <<keys[m]>> \o ArraySort(rest)

\* mutant: the profiles of the two levels exchanged
advancedRatioExchanged(level) == IF level = "entry" THEN 5 ELSE 1

\* the ratios, in tenths (beginnerRatio is assigned but never read)
intermediateRatio(level) == 4
advancedRatio(level) == IF level = "experienced" THEN 5 ELSE 1

perWeek(cnt, numWeeks) == MathFloorDiv(cnt, numWeeks)
remainder(cnt, numWeeks) == JsRem(cnt, numWeeks)

\* mutant: one week too many gets the extra question
weekCountInclusive(cnt, numWeeks, idx) ==
    perWeek(cnt, numWeeks) + (IF idx <= remainder(cnt, numWeeks) THEN 1 ELSE 0)

\* const weekCount = perWeek + (index < remainder ? 1 : 0)
weekCount(cnt, numWeeks, idx) ==
    perWeek(cnt, numWeeks) + (IF idx < remainder(cnt, numWeeks) THEN 1 ELSE 0)

OfDifficulty(qs, d) == SelectSeq(qs, LAMBDA q : q.difficulty = d)

advancedCount(wc, level, advLen) ==
    Min(advLen, Max(0, MathRound(wc * advancedRatio(level))))
intermediateCount(wc, level, intLen) ==
    Min(intLen, Max(0, MathRound(wc * intermediateRatio(level))))
\* mutant: the remainder is not clamped at 0
beginnerCountUnclamped(wc, iCount, aCount) == wc - iCount - aCount
beginnerCount(wc, iCount, aCount) == Max(0, wc - iCount - aCount)

\* new Set(arr.map(q => q.id))
IdSet(arr) == {arr[k].id : k \in DOMAIN arr}
\* mutant: the filter keeps every question
NotSelectedKeepingAll(arr, ids) == arr

\* arr.filter(q => !alreadySelectedIds.has(q.id))
NotSelected(arr, ids) == SelectSeq(arr, LAMBDA q : q.id \notin ids)

CurWeek == weeks[index + 1]
CurWeekCount == weekCount(count, Len(weeks), index)

\* mutant: the accumulated selection outlives the call
GroupKeepingSelection ==
    /\ pc = "group"
    /\ byWeek' = GroupByWeek(<<>>, questions)
    /\ weeks' = ArraySort(MapKeys(byWeek'))
    /\ IF Len(weeks') = 0
       THEN /\ result' = <<>>
            /\ pc' = "done"
            /\ UNCHANGED index
       ELSE /\ result' = result
            /\ index' = 0
            /\ pc' = "stratify"
    /\ UNCHANGED <<questions, count, interviewLevel, weekSelected, selected>>
    /\ UNCHANGED outsideSampler

\* lines 100-119: group by week, sort the keys, return [] for an empty pool;
\* otherwise start from an empty selection at the first week
Group ==
    /\ pc = "group"
    /\ byWeek' = GroupByWeek(<<>>, questions)
    /\ weeks' = ArraySort(MapKeys(byWeek'))
    /\ IF Len(weeks') = 0
       THEN /\ result' = <<>>
            /\ pc' = "done"
            /\ UNCHANGED <<index, selected>>
       ELSE /\ result' = result
            /\ selected' = <<>>
            /\ index' = 0
            /\ pc' = "stratify"
    /\ UNCHANGED <<questions, count, interviewLevel, weekSelected>>
    /\ UNCHANGED outsideSampler

\* lines 133-165: the stratified picks of the week at `index`
Stratify ==
    /\ pc = "stratify"
    /\ LET weekQuestions == MapGet(byWeek, CurWeek)
           beginnerQuestions == OfDifficulty(weekQuestions, "beginner")
           intermediateQuestions == OfDifficulty(weekQuestions, "intermediate")
           advancedQuestions == OfDifficulty(weekQuestions, "advanced")
           aCount == advancedCount(CurWeekCount, interviewLevel, Len(advancedQuestions))
           iCount == intermediateCount(CurWeekCount, interviewLevel, Len(intermediateQuestions))
           bCount == beginnerCount(CurWeekCount, iCount, aCount)
       IN  \E sb \in ShuffleOutcomes(beginnerQuestions),
              si \in ShuffleOutcomes(intermediateQuestions),
              sa \in ShuffleOutcomes(advancedQuestions) :
              weekSelected' =
                  Slice(sb, Min(Len(beginnerQuestions), bCount))
                  \o Slice(si, Min(Len(intermediateQuestions), iCount))
                  \o Slice(sa, Min(Len(advancedQuestions), aCount))
    /\ pc' = "weekBackfill"
    /\ UNCHANGED <<questions, count, interviewLevel, byWeek, weeks, index, selected, result>>
    /\ UNCHANGED outsideSampler

\* mutant: the week is filled from the full pool instead of weekQuestions
WeekBackfillFromPool ==
    /\ pc = "weekBackfill"
    /\ IF Len(weekSelected) < CurWeekCount
       THEN \E remaining \in ShuffleOutcomes(
                               NotSelected(questions, IdSet(weekSelected))) :
               weekSelected' = weekSelected
                   \o Slice(remaining, CurWeekCount - Len(weekSelected))
       ELSE weekSelected' = weekSelected
    /\ selected' = selected \o weekSelected'
    /\ index' = index + 1
    /\ pc' = IF index + 1 < Len(weeks) THEN "stratify" ELSE "globalBackfill"
    /\ UNCHANGED <<questions, count, interviewLevel, byWeek, weeks, result>>
    /\ UNCHANGED outsideSampler

\* mutant: no fill from the rest of the week
WeekBackfillSkipped ==
    /\ pc = "weekBackfill"
    /\ selected' = selected \o weekSelected
    /\ index' = index + 1
    /\ pc' = IF index + 1 < Len(weeks) THEN "stratify" ELSE "globalBackfill"
    /\ UNCHANGED <<questions, count, interviewLevel, byWeek, weeks, weekSelected, result>>
    /\ UNCHANGED outsideSampler

\* lines 167-175: fill the week from its remaining questions, accumulate,
\* and go on to the next week
WeekBackfill ==
    /\ pc = "weekBackfill"
    /\ LET weekQuestions == MapGet(byWeek, CurWeek)
       IN  IF Len(weekSelected) < CurWeekCount
           THEN \E remaining \in ShuffleOutcomes(
                                   NotSelected(weekQuestions, IdSet(weekSelected))) :
                   weekSelected' = weekSelected
                       \o Slice(remaining, CurWeekCount - Len(weekSelected))
           ELSE weekSelected' = weekSelected
    /\ selected' = selected \o weekSelected'
    /\ index' = index + 1
    /\ pc' = IF index + 1 < Len(weeks) THEN "stratify" ELSE "globalBackfill"
    /\ UNCHANGED <<questions, count, interviewLevel, byWeek, weeks, result>>
    /\ UNCHANGED outsideSampler

\* mutant: no fill from the full pool
GlobalBackfillSkipped ==
    /\ pc = "globalBackfill"
    /\ pc' = "finalShuffle"
    /\ UNCHANGED <<questions, count, interviewLevel, byWeek, weeks, index,
                   weekSelected, selected, result>>
    /\ UNCHANGED outsideSampler

\* mutant: the full pool is used only when it is smaller than count
GlobalBackfillOnlyWhenPoolShort ==
    /\ pc = "globalBackfill"
    /\ IF Len(questions) < count
       THEN \E remaining \in ShuffleOutcomes(NotSelected(questions, IdSet(selected))) :
               selected' = selected \o Slice(remaining, count - Len(selected))
       ELSE selected' = selected
    /\ pc' = "finalShuffle"
    /\ UNCHANGED <<questions, count, interviewLevel, byWeek, weeks, index, weekSelected, result>>
    /\ UNCHANGED outsideSampler

\* mutant: the guard also lets a complete selection through
GlobalBackfillEager ==
    /\ pc = "globalBackfill"
    /\ IF Len(selected) <= count
       THEN \E remaining \in ShuffleOutcomes(NotSelected(questions, IdSet(selected))) :
               selected' = selected \o Slice(remaining, count + 1 - Len(selected))
       ELSE selected' = selected
    /\ pc' = "finalShuffle"
    /\ UNCHANGED <<questions, count, interviewLevel, byWeek, weeks, index, weekSelected, result>>
    /\ UNCHANGED outsideSampler

\* lines 177-182: fill from the full pool
GlobalBackfill ==
    /\ pc = "globalBackfill"
    /\ IF Len(selected) < count
       THEN \E remaining \in ShuffleOutcomes(NotSelected(questions, IdSet(selected))) :
               selected' = selected \o Slice(remaining, count - Len(selected))
       ELSE selected' = selected
    /\ pc' = "finalShuffle"
    /\ UNCHANGED <<questions, count, interviewLevel, byWeek, weeks, index, weekSelected, result>>
    /\ UNCHANGED outsideSampler

\* line 185: return shuffleArray(selected)
FinalShuffle ==
    /\ pc = "finalShuffle"
    /\ result' \in ShuffleOutcomes(selected)
    /\ pc' = "done"
    /\ UNCHANGED <<questions, count, interviewLevel, byWeek, weeks, index, weekSelected, selected>>
    /\ UNCHANGED outsideSampler

\* the caller (createSession) calls selectRandomQuestions again with the same
\* pool and count; the locals of the earlier call are whatever it left behind
RepeatCall ==
    /\ pc = "done"
    /\ calls < MaxCalls
    /\ calls' = calls + 1
    /\ interviewLevel' \in Levels
    /\ result' = <<>>
    /\ pc' = "group"
    /\ UNCHANGED <<questions, count, byWeek, weeks, index, weekSelected, selected>>
    /\ UNCHANGED <<shuffleVars, apiKey, bodyValid, content, response, routePc,
                   session, nextSessionId, isProcessing, pending, completions,
                   reviewVars, queueVars, historyVars>>

\* ------------------------------------------- shuffleArray, statement by statement
\* line 81: const shuffled = [...array]
ShuffleCopy ==
    /\ shufflePc = "copy"
    /\ shuffled' = array
    /\ loopI' = Len(array) - 1
    /\ shufflePc' = "loop"
    /\ UNCHANGED <<array, draws>>
    /\ UNCHANGED outsideShuffle

\* lines 82-85: one iteration of the loop
ShuffleLoop ==
    /\ shufflePc = "loop"
    /\ loopI > 0
    /\ \E j \in DrawRange(loopI) :
          /\ shuffled' = SwapStep(shuffled, loopI, j)
          /\ draws' = Append(draws, j)
    /\ loopI' = loopI - 1
    /\ UNCHANGED <<array, shufflePc>>
    /\ UNCHANGED outsideShuffle

\* line 86: return shuffled
ShuffleReturn ==
    /\ shufflePc = "loop"
    /\ ~(loopI > 0)
    /\ shufflePc' = "done"
    /\ UNCHANGED <<array, shuffled, loopI, draws>>
    /\ UNCHANGED outsideShuffle

\* ------------------------------------------ POST /api/score (app/api/score/route.ts)
\* The LLM reply is a string, modelled as a sequence of tokens. "SCORE:" stands
\* for the label in any case (the patterns carry the i flag), "word" for a
\* short run of letters and "essay" for a long one.
DigitTokens == {"0", "4", "5", "9"}
SpaceTokens == {" ", "\n"}
LabelTokens == {"SCORE:", "**SCORE**:", "FEEDBACK:", "**FEEDBACK**:"}
ContentTokens == DigitTokens \cup SpaceTokens \cup LabelTokens \cup {"/", "word", "essay"}
Contents == UNION {[1..n -> ContentTokens] : n \in 0..MaxContentLen}

KeyMissingMessage == "AI scoring not available"
UnavailableMessage == "Scoring temporarily unavailable"
NotParsedMessage == "Feedback could not be parsed"
CutToken == "cut"
Ellipsis == "..."

\* number of characters of a token
TokenChars(t) ==
    CASE t \in DigitTokens \cup SpaceTokens \cup {"/"} -> 1
      [] t = "SCORE:" -> 6
      [] t = "**SCORE**:" -> 10
      [] t = "FEEDBACK:" -> 9
      [] t = "**FEEDBACK**:" -> 13
      [] t = "word" -> 4
      [] t = "essay" -> 1001
      [] t = Ellipsis -> 3
      [] t = CutToken -> 1
      [] t = KeyMissingMessage -> 102
      [] t = UnavailableMessage -> 71
      [] t = NotParsedMessage -> 71

\* the value of a one-element set: binds an intermediate result once
TheOne(S) == CHOOSE x \in S : TRUE

\* number of characters of the first n tokens of s
RECURSIVE CharsUpTo(_, _)
CharsUpTo(s, n) == IF n = 0 THEN 0 ELSE CharsUpTo(s, n - 1) + TokenChars(s[n])

\* String.prototype.length
Chars(s) == CharsUpTo(s, Len(s))

\* parseInt(match[1], 10) of a single digit
parseInt(t) ==
    CASE t = "0" -> 0 [] t = "4" -> 4 [] t = "5" -> 5 [] t = "9" -> 9

\* \s* from position p: the first position at or after p that is not white space
RECURSIVE SkipSpace(_, _)
SkipSpace(c, p) ==
    IF p <= Len(c) /\ c[p] \in SpaceTokens THEN SkipSpace(c, p + 1) ELSE p

IsDigitAt(c, p) == p <= Len(c) /\ c[p] \in DigitTokens

\* label\s*(\d) matched at position p
LabelDigitMatchesAt(c, label, p) ==
    c[p] = label /\ IsDigitAt(c, SkipSpace(c, p + 1))

\* content.match(/label\s*(\d)/): position of the captured digit, 0 without match
LabelDigit(c, label) ==
    IF \E p \in 1..Len(c) : LabelDigitMatchesAt(c, label, p)
    THEN LET p == CHOOSE q \in 1..Len(c) :
                     /\ LabelDigitMatchesAt(c, label, q)
                     /\ \A r \in 1..(q - 1) : ~LabelDigitMatchesAt(c, label, r)
         IN  SkipSpace(c, p + 1)
    ELSE 0

\* position after a match of \s*\/\s*5 that starts at p, 0 without match
SlashFiveEnd(c, p) ==
    LET q == SkipSpace(c, p)
        r == SkipSpace(c, q + 1)
    IN  IF q <= Len(c) /\ c[q] = "/" /\ r <= Len(c) /\ c[r] = "5" THEN r + 1 ELSE 0

\* content.match(/(\d)\s*\/\s*5/): position of the captured digit, 0 without match
Fraction(c) ==
    IF \E p \in 1..Len(c) : IsDigitAt(c, p) /\ SlashFiveEnd(c, p + 1) > 0
    THEN CHOOSE q \in 1..Len(c) :
            /\ IsDigitAt(c, q) /\ SlashFiveEnd(c, q + 1) > 0
            /\ \A r \in 1..(q - 1) : ~(IsDigitAt(c, r) /\ SlashFiveEnd(c, r + 1) > 0)
    ELSE 0

DefaultScore == 3

\* lines 192-208: the first pattern that matches gives the score
ParseScore(c) ==
    IF LabelDigit(c, "SCORE:") > 0 THEN parseInt(c[LabelDigit(c, "SCORE:")])
    ELSE IF LabelDigit(c, "**SCORE**:") > 0 THEN parseInt(c[LabelDigit(c, "**SCORE**:")])
    ELSE IF Fraction(c) > 0 THEN parseInt(c[Fraction(c)])
    ELSE DefaultScore

\* mutant: the parsed digit is returned as it is
ClampScoreOmitted(score) == score

\* line 247: Math.min(5, Math.max(1, score))
ClampScore(score) == Min(5, Max(1, score))

\* String.prototype.trim
\* the last position at or before p that is not white space (0 if none)
RECURSIVE SkipSpaceBack(_, _)
SkipSpaceBack(s, p) ==
    IF p >= 1 /\ s[p] \in SpaceTokens THEN SkipSpaceBack(s, p - 1) ELSE p
Trim(s) == SubSeq(s, SkipSpace(s, 1), SkipSpaceBack(s, Len(s)))

\* first position after a run of "\n" that starts at p
RECURSIVE SkipNewlines(_, _)
SkipNewlines(s, p) ==
    IF p <= Len(s) /\ s[p] = "\n" THEN SkipNewlines(s, p + 1) ELSE p

NewlinesScoreAt(s, p) ==
    /\ s[p] = "\n"
    /\ SkipNewlines(s, p) <= Len(s)
    /\ s[SkipNewlines(s, p)] = "SCORE:"

\* feedback.replace(/\n+SCORE:.*/is, '')
RemoveTrailingScore(s) ==
    IF \E p \in 1..Len(s) : NewlinesScoreAt(s, p)
    THEN LET p == CHOOSE q \in 1..Len(s) :
                     /\ NewlinesScoreAt(s, q)
                     /\ \A r \in 1..(q - 1) : ~NewlinesScoreAt(s, r)
         IN  SubSeq(s, 1, p - 1)
    ELSE s

\* content.match(/label\s*(.+)/is): the label must be followed by something
LabelTextMatches(c, label) == \E p \in 1..(Len(c) - 1) : c[p] = label

\* match[1].trim() of that match, then the removal of a trailing score line
LabelText(c, label) ==
    LET p == CHOOSE q \in 1..(Len(c) - 1) :
                 c[q] = label /\ \A r \in 1..(q - 1) : c[r] # label
    IN  TheOne({Trim(u) : u \in {RemoveTrailingScore(t) :
                                    t \in {Trim(SubSeq(c, p + 1, Len(c)))}}})

\* lines 210-225: the first feedback pattern that matches
StructuredFeedback(c) ==
    IF LabelTextMatches(c, "FEEDBACK:") THEN LabelText(c, "FEEDBACK:")
    ELSE IF LabelTextMatches(c, "**FEEDBACK**:") THEN LabelText(c, "**FEEDBACK**:")
    ELSE <<>>

\* .replace(/SCORE:\s*\d/gi, ''), left to right from position p
RECURSIVE StripScores(_, _)
StripScores(c, p) ==
    IF p > Len(c) THEN <<>>
    ELSE IF LabelDigitMatchesAt(c, "SCORE:", p)
         THEN StripScores(c, SkipSpace(c, p + 1) + 1)
         ELSE <<c[p]>> \o StripScores(c, p + 1)

\* position after a match of ^\s*[\d]\s*\/\s*5\s* that starts at p, 0 without match
FractionLineEnd(c, p) ==
    LET q == SkipSpace(c, p)
    IN  IF (p = 1 \/ c[p - 1] = "\n") /\ IsDigitAt(c, q) /\ SlashFiveEnd(c, q + 1) > 0
        THEN SkipSpace(c, SlashFiveEnd(c, q + 1))
        ELSE 0

\* .replace(/^\s*[\d]\s*\/\s*5\s*/gm, ''), left to right from position p
RECURSIVE StripFractionLines(_, _)
StripFractionLines(c, p) ==
    IF p > Len(c) THEN <<>>
    ELSE IF FractionLineEnd(c, p) > 0
         THEN StripFractionLines(c, FractionLineEnd(c, p))
         ELSE <<c[p]>> \o StripFractionLines(c, p + 1)

FeedbackCap == 1000
MinWholeLength == 20

\* feedback.slice(0, 1000): the tokens that fit, and the cut part of the next
SliceChars(s, n) ==
    LET whole == {k \in 0..Len(s) : CharsUpTo(s, k) <= n}
        fit == CHOOSE k \in whole : \A j \in whole : j <= k
    IN  IF fit = Len(s) \/ CharsUpTo(s, fit) = n THEN SubSeq(s, 1, fit)
        ELSE Append(SubSeq(s, 1, fit), CutToken)

\* lines 228-239: the whole reply without its score lines, capped
WholeFeedback(c) ==
    LET Capped(stripped) ==
            IF Chars(stripped) > FeedbackCap
            THEN Append(SliceChars(stripped, FeedbackCap), Ellipsis)
            ELSE stripped
    IN  TheOne({Capped(Trim(u)) :
                  u \in {StripFractionLines(v, 1) :
                  v \in {StripScores(w, 1) :
                  w \in {StripScores(c, 1)}}}})

\* lines 210-244: structured feedback, else the whole reply, else a fixed note
ParseFeedback(c) ==
    LET Fallback(structured) ==
            IF Chars(structured) = 0 /\ Chars(c) > MinWholeLength
            THEN WholeFeedback(c) ELSE structured
        Final(whole) ==
            IF Chars(whole) = 0 THEN <<NotParsedMessage>> ELSE whole
    IN  TheOne({Final(w) : w \in {Fallback(t) : t \in {StructuredFeedback(c)}}})

ApiKeys == {"undefined", "", "pk-test", "sk-test"}
KeyUsable(k) == ~(k \in {"undefined", ""}) /\ k = "sk-test"

routeVars == <<apiKey, bodyValid, content, response, routePc>>

NoResponse == [score |-> 0, feedback |-> <<>>, error |-> FALSE]

\* lines 119-128: the key check
PostCheckKey ==
    /\ routePc = "checkKey"
    /\ IF ~KeyUsable(apiKey)
       THEN /\ response' = [score |-> DefaultScore, feedback |-> <<KeyMissingMessage>>,
                            error |-> FALSE]
            /\ routePc' = "responded"
       ELSE /\ response' = response
            /\ routePc' = "readBody"
    /\ UNCHANGED <<apiKey, bodyValid, content>>
    /\ UNCHANGED outsideRoute

\* lines 130-140: request.json(), the destructuring and question.type
PostReadBody ==
    /\ routePc = "readBody"
    /\ routePc' = IF bodyValid THEN "invoke" ELSE "catch"
    /\ UNCHANGED <<apiKey, bodyValid, content, response>>
    /\ UNCHANGED outsideRoute

\* lines 142-187: the LLM call throws or answers with some content
PostInvoke ==
    /\ routePc = "invoke"
    /\ \/ /\ routePc' = "catch"
          /\ content' = content
       \/ /\ routePc' = "parse"
          /\ content' \in Contents
    /\ UNCHANGED <<apiKey, bodyValid, response>>
    /\ UNCHANGED outsideRoute

\* lines 192-249: parse the reply and answer
PostParse ==
    /\ routePc = "parse"
    /\ response' = [score |-> ClampScore(ParseScore(content)),
                    feedback |-> ParseFeedback(content),
                    error |-> FALSE]
    /\ routePc' = "responded"
    /\ UNCHANGED <<apiKey, bodyValid, content>>
    /\ UNCHANGED outsideRoute

\* lines 250-257: the catch block
PostCatch ==
    /\ routePc = "catch"
    /\ response' = [score |-> DefaultScore, feedback |-> <<UnavailableMessage>>,
                    error |-> TRUE]
    /\ routePc' = "responded"
    /\ UNCHANGED <<apiKey, bodyValid, content>>
    /\ UNCHANGED outsideRoute

RouteIdle ==
    /\ apiKey = "undefined" /\ bodyValid = FALSE /\ content = <<>>
    /\ response = NoResponse /\ routePc = "idle"

\* ------------------------- interview store and interview page (github-service.ts,
\* app/interview/page.tsx). `session` is <<>> for null and <<s>> for a session s.
\* Question ids are tuples: <<"starter", k>> for 'starter-k' and
\* <<"week", w, n>> for `week${w}-q${n}`.
StarterIds == <<<<"starter", 1>>, <<"starter", 2>>>>
TechId(w, n) == <<"week", w, n>>
TechIds == {TechId(1, n) : n \in 1..3}
KeywordLists == {<<>>, <<"k1">>, <<"k1", "k2">>}

\* types.ts 114-140; the wording of a starter question is drawn at random and
\* is payload only
generateStarterQuestions ==
    [k \in 1..Len(StarterIds) |-> [id |-> StarterIds[k], keywords |-> <<>>]]

\* what selectRandomQuestions can return: questions in any order, two of
\* them with the same id when the pool holds such questions
TechQuestions == [id : TechIds, keywords : KeywordLists]
SampledLists == UNION {[1..n -> TechQuestions] : n \in 0..MaxSessionQuestions}

NoScore == 0
NoFeedback == "undefined"

\* lines 199-209
StarterAssessment(sq) ==
    [questionId |-> sq.id, keywordsHit |-> <<>>, keywordsMissed |-> <<>>,
     didNotGetTo |-> FALSE, status |-> "pending",
     llmScore |-> NoScore, llmFeedback |-> NoFeedback]

\* lines 212-222
TechnicalAssessment(q) ==
    [questionId |-> q.id, keywordsHit |-> <<>>, keywordsMissed |-> q.keywords,
     didNotGetTo |-> FALSE, status |-> "pending",
     llmScore |-> NoScore, llmFeedback |-> NoFeedback]

\* assessments[key] = rec
Assign(a, key, rec) ==
    [x \in (DOMAIN a) \cup {key} |-> IF x = key THEN rec ELSE a[x]]

\* the forEach loops of lines 199-222, after n technical questions
RECURSIVE InitialAssessments(_, _, _)
InitialAssessments(starters, qs, n) ==
    IF n = 0
    THEN [x \in {starters[k].id : k \in DOMAIN starters} |->
             StarterAssessment(starters[CHOOSE k \in DOMAIN starters : starters[k].id = x])]
    ELSE TheOne({Assign(a, qs[n].id, TechnicalAssessment(qs[n])) :
                    a \in {InitialAssessments(starters, qs, n - 1)}})

\* lines 224-237
NewSession(sid, starters, selectedQuestions) ==
    [id |-> sid,
     starterQuestions |-> starters,
     questions |-> selectedQuestions,
     assessments |-> InitialAssessments(starters, selectedQuestions, Len(selectedQuestions)),
     currentQuestionIndex |-> 0,
     status |-> "in-progress"]

HasSession == Len(session) = 1
Sess == session[1]

\* getAllQuestions, getCurrentQuestion, getProgress of a session s
getAllQuestions(s) == s.starterQuestions \o s.questions
getCurrentQuestion(s) == getAllQuestions(s)[s.currentQuestionIndex + 1]
ProgressCurrent(s) == s.currentQuestionIndex + 1
ProgressTotal(s) == Len(getAllQuestions(s))

\* lines 267-283: a no-op without session or without that assessment
updateAssessment(ses, questionId, updates) ==
    IF Len(ses) = 1 /\ questionId \in DOMAIN ses[1].assessments
    THEN <<[ses[1] EXCEPT !.assessments[questionId] =
                [f \in (DOMAIN @) \cup (DOMAIN updates) |->
                    IF f \in DOMAIN updates THEN updates[f] ELSE @[f]]]>>
    ELSE ses

\* lines 379-382
completeQuestion(ses, questionId) ==
    updateAssessment(ses, questionId, [status |-> "processing"])

\* mutant: the result is stored without the status
setLLMResultKeepingStatus(ses, questionId, score, feedback) ==
    updateAssessment(ses, questionId, [llmScore |-> score, llmFeedback |-> feedback])

\* lines 361-368
setLLMResult(ses, questionId, score, feedback) ==
    updateAssessment(ses, questionId,
        [llmScore |-> score, llmFeedback |-> feedback, status |-> "ready"])

\* lines 250-257
nextQuestion(ses) ==
    IF Len(ses) = 1
    THEN <<[ses[1] EXCEPT !.currentQuestionIndex =
                Min(@ + 1, ProgressTotal(ses[1]) - 1)]>>
    ELSE ses

\* lines 259-265
previousQuestion(ses) ==
    IF Len(ses) = 1
    THEN <<[ses[1] EXCEPT !.currentQuestionIndex = Max(@ - 1, 0)]>>
    ELSE ses

\* lines 243-248
setCurrentQuestionIndex(ses, i) ==
    IF Len(ses) = 1 THEN <<[ses[1] EXCEPT !.currentQuestionIndex = i]>> ELSE ses

storeVars == <<session, nextSessionId, isProcessing, pending, completions>>

\* the interview page is shown for a session in progress
PageShown == HasSession /\ Sess.status = "in-progress"

\* createSession (190-239)
CreateSession ==
    /\ nextSessionId <= MaxSessions
    /\ \E selectedQuestions \in SampledLists :
          session' = <<NewSession(nextSessionId, generateStarterQuestions,
                                  selectedQuestions)>>
    /\ nextSessionId' = nextSessionId + 1
    /\ UNCHANGED <<isProcessing, pending, completions>>
    /\ UNCHANGED outsideStore

\* the sessions started from the home page: the first n of these questions
InterviewQuestion(n) == [id |-> TechId(1, n), keywords |-> <<"k1", "k2">>]
InterviewLists ==
    {[k \in 1..n |-> InterviewQuestion(k)] : n \in 1..MaxInterviewQuestions}

\* handleStartInterview of the home page (part_000 122-137): createSession,
\* then the interview page is mounted
StartInterview ==
    /\ nextSessionId <= MaxSessions
    /\ \E selectedQuestions \in InterviewLists :
          session' = <<NewSession(nextSessionId, generateStarterQuestions,
                                  selectedQuestions)>>
    /\ nextSessionId' = nextSessionId + 1
    /\ isProcessing' = FALSE
    /\ UNCHANGED <<pending, completions>>
    /\ UNCHANGED outsideStore

\* resetSession (241), reached from the home page
ResetSession ==
    /\ HasSession
    /\ session' = <<>>
    /\ UNCHANGED <<nextSessionId, isProcessing, pending, completions>>
    /\ UNCHANGED outsideStore

\* handleComplete up to the fetch (page.tsx 49-72); the button is disabled
\* while isProcessing
HandleComplete ==
    /\ PageShown
    /\ ~isProcessing
    /\ completions < MaxCompletions
    /\ LET currentQuestion == getCurrentQuestion(Sess)
       IN  /\ currentQuestion.id \in DOMAIN Sess.assessments
           /\ session' = completeQuestion(session, currentQuestion.id)
           /\ pending' = Append(pending,
                  [questionId |-> currentQuestion.id,
                   advance |-> ProgressCurrent(Sess) < ProgressTotal(Sess),
                   forSession |-> Sess.id])
    /\ isProcessing' = TRUE
    /\ completions' = completions + 1
    /\ UNCHANGED nextSessionId
    /\ UNCHANGED outsideStore

\* scores an OK response of /api/score can carry
OkScores == {ClampScore(parseInt(d)) : d \in DigitTokens} \cup {DefaultScore}
RouteFeedback == "feedback of /api/score"
FailureScore == 3
FailureFeedback == "Scoring temporarily unavailable. Please review manually."

\* the ways the fetch can settle: an OK response, a non-OK response, a throw
Settlements ==
    [kind : {"ok"}, score : OkScores, feedback : {RouteFeedback}]
    \cup [kind : {"notOk", "throws"}, score : {FailureScore}, feedback : {FailureFeedback}]

Without(s, k) == [e \in 1..(Len(s) - 1) |-> IF e < k THEN s[e] ELSE s[e + 1]]

\* mutant: the result is stored for the question shown when the fetch settles
ScoringSettlesForShownQuestion ==
    /\ \E k \in 1..Len(pending), settled \in Settlements :
          LET req == pending[k]
              shown == IF HasSession THEN getCurrentQuestion(Sess).id
                       ELSE req.questionId
              stored == setLLMResult(session, shown,
                                     settled.score, settled.feedback)
          IN  /\ session' = IF req.advance THEN nextQuestion(stored) ELSE stored
              /\ isProcessing' =
                    IF HasSession /\ Sess.id = req.forSession THEN FALSE
                    ELSE isProcessing
              /\ pending' = Without(pending, k)
    /\ UNCHANGED <<nextSessionId, completions>>
    /\ UNCHANGED outsideStore

\* handleComplete after the fetch has settled (page.tsx 74-91)
ScoringSettles ==
    /\ \E k \in 1..Len(pending), settled \in Settlements :
          LET req == pending[k]
              stored == setLLMResult(session, req.questionId,
                                     settled.score, settled.feedback)
          IN  /\ session' = IF req.advance THEN nextQuestion(stored) ELSE stored
              /\ isProcessing' =
                    IF HasSession /\ Sess.id = req.forSession THEN FALSE
                    ELSE isProcessing
              /\ pending' = Without(pending, k)
    /\ UNCHANGED <<nextSessionId, completions>>
    /\ UNCHANGED outsideStore

\* the Next button (page.tsx 179-185), shown unless on the last question
NextQuestion ==
    /\ PageShown
    /\ Sess.currentQuestionIndex # ProgressTotal(Sess) - 1
    /\ session' = nextQuestion(session)
    /\ UNCHANGED <<nextSessionId, isProcessing, pending, completions>>
    /\ UNCHANGED outsideStore

\* the Previous button (page.tsx 169-176), disabled on the first question
PreviousQuestion ==
    /\ PageShown
    /\ Sess.currentQuestionIndex # 0
    /\ session' = previousQuestion(session)
    /\ UNCHANGED <<nextSessionId, isProcessing, pending, completions>>
    /\ UNCHANGED outsideStore

\* handleSkip (page.tsx 94-98)
HandleSkip ==
    /\ PageShown
    /\ session' = IF ProgressCurrent(Sess) < ProgressTotal(Sess)
                  THEN nextQuestion(session) ELSE session
    /\ UNCHANGED <<nextSessionId, isProcessing, pending, completions>>
    /\ UNCHANGED outsideStore

\* handleNavigate (page.tsx 107-109): a progress dot
HandleNavigate ==
    /\ PageShown
    /\ \E i \in 0..(ProgressTotal(Sess) - 1) :
          session' = setCurrentQuestionIndex(session, i)
    /\ UNCHANGED <<nextSessionId, isProcessing, pending, completions>>
    /\ UNCHANGED outsideStore

\* the review page before it is mounted (review/page.tsx 37-42)
ReviewIdle ==
    /\ editingId = <<>> /\ editScore = 3 /\ editFeedback = ""
    /\ retryingId = <<>> /\ retries = <<>> /\ retryCount = 0
    /\ isGeneratingPDF = FALSE

\* a ScoringQueue after its constructor (langchain.ts 109-122)
QueueIdle ==
    /\ queue = <<>> /\ processing = FALSE /\ queuePc = <<>>
    /\ inFlight = {} /\ started = <<>> /\ promises = <<>> /\ enqueued = 0

\* /api/history with no history file and no request (history/route.ts 20-24)
HistoryIdle ==
    /\ history = <<>> /\ requests = <<>> /\ arrived = <<>> /\ base = <<>>

StoreIdle ==
    /\ session = <<>> /\ nextSessionId = 1 /\ isProcessing = FALSE /\ pending = <<>>
    /\ completions = 0

\* ---------------------------------------------------------- initial states
DifficultyList == <<"beginner", "intermediate", "advanced">>

\* the (week, difficulty) cells, numbered 1 .. NumCells
NumCells == Len(WeekList) * Len(DifficultyList)
CellAt(c) == <<WeekList[((c - 1) \div Len(DifficultyList)) + 1],
               DifficultyList[((c - 1) % Len(DifficultyList)) + 1]>>

MkQuestion(idNum, cell) == [id |-> idNum, weekNumber |-> cell[1], difficulty |-> cell[2]]

PoolOf(f) == [k \in DOMAIN f |-> MkQuestion(k, CellAt(f[k]))]

\* every pool of up to MaxFreePool questions with ids 1, 2, .., in every order
\* of the cells
FreePools ==
    UNION {{PoolOf(f) : f \in [1..n -> 1..NumCells]} : n \in 0..MaxFreePool}

\* every combination of cells of up to MaxPool questions, listed cell by cell
GroupedPools ==
    UNION {{PoolOf(f) : f \in {g \in [1..n -> 1..NumCells] :
                                 \A k \in 1..(n - 1) : g[k] <= g[k + 1]}}
           : n \in 0..MaxPool}

SmallPools == FreePools \cup GroupedPools

\* w weeks x 3 difficulties x k questions; such a pool is sampled with
\* counts up to k
SyntheticPool(w, k) ==
    [p \in 1..(w * 3 * k) |->
        MkQuestion(p, CellAt(((p - 1) \div k) + 1))]

Counts == (0 - MaxNeg)..MaxCount

\* arrays of pairwise distinct elements, and arrays with repeated elements
ShuffleInputs ==
    {[k \in 1..n |-> k] : n \in 0..MaxShuffleLen}
    \cup UNION {[1..n -> 1..2] : n \in 0..MaxShuffleLen}

SamplerIdle ==
    /\ byWeek = <<>> /\ weeks = <<>> /\ index = 0
    /\ weekSelected = <<>> /\ selected = <<>> /\ result = <<>>

ShuffleIdle ==
    /\ array = <<>> /\ shuffled = <<>> /\ loopI = 0 /\ draws = <<>>
    /\ shufflePc = "idle"

\* a call of selectRandomQuestions(questions, count, interviewLevel)
InitSampler ==
    /\ \/ /\ questions \in SmallPools
          /\ count \in Counts
       \/ \E w \in 1..Len(WeekList), k \in 1..MaxSupply :
             /\ questions = SyntheticPool(w, k)
             /\ count \in 0..k
    /\ interviewLevel \in Levels
    /\ pc = "group"
    /\ calls = 1
    /\ SamplerIdle
    /\ RouteIdle
    /\ StoreIdle
    /\ ReviewIdle
    /\ QueueIdle
    /\ HistoryIdle
    /\ ShuffleIdle

\* a call of shuffleArray(array)
InitShuffle ==
    /\ array \in ShuffleInputs
    /\ shuffled = <<>> /\ loopI = 0 /\ draws = <<>>
    /\ shufflePc = "copy"
    /\ questions = <<>> /\ count = 0 /\ interviewLevel = "entry"
    /\ pc = "idle"
    /\ calls = 0
    /\ SamplerIdle
    /\ RouteIdle
    /\ StoreIdle
    /\ ReviewIdle
    /\ QueueIdle
    /\ HistoryIdle

Init == InitSampler \/ InitShuffle

Next ==
    \/ Group
    \/ Stratify
    \/ WeekBackfill
    \/ GlobalBackfill
    \/ FinalShuffle
    \/ ShuffleCopy
    \/ ShuffleLoop
    \/ ShuffleReturn

Spec == Init /\ [][Next]_vars

\* ------------------------------------------------ repeated calls of the sampler
\* pools of up to MaxCallPool questions, sampled MaxCalls times
CallPools ==
    UNION {{PoolOf(f) : f \in [1..n -> 1..NumCells]} : n \in 0..MaxCallPool}

InitCalls ==
    /\ questions \in CallPools
    /\ count \in Counts
    /\ interviewLevel \in Levels
    /\ pc = "group"
    /\ calls = 1
    /\ SamplerIdle
    /\ RouteIdle
    /\ StoreIdle
    /\ ReviewIdle
    /\ QueueIdle
    /\ HistoryIdle
    /\ ShuffleIdle

NextCalls ==
    \/ Group
    \/ Stratify
    \/ WeekBackfill
    \/ GlobalBackfill
    \/ FinalShuffle
    \/ RepeatCall

SpecCalls == InitCalls /\ [][NextCalls]_vars

\* ------------------------------------------------------------ irregular pools
\* pools whose ids may repeat and whose weekNumber may be absent, 0 or equal
\* to the fallback key
IrregularWeeks == {undefined, 0, 2, FallbackWeek}
IrregularDifficulties == {"beginner", "advanced"}
IrregularIds == 1..2
IrregularQuestions ==
    [id : IrregularIds, weekNumber : IrregularWeeks, difficulty : IrregularDifficulties]
IrregularPools == UNION {[1..n -> IrregularQuestions] : n \in 0..MaxIrregularPool}

InitIrregular ==
    /\ questions \in IrregularPools
    /\ count \in 0..MaxIrregularCount
    /\ interviewLevel \in Levels
    /\ pc = "group"
    /\ calls = 1
    /\ SamplerIdle
    /\ RouteIdle
    /\ StoreIdle
    /\ ReviewIdle
    /\ QueueIdle
    /\ HistoryIdle
    /\ ShuffleIdle

NextSampler ==
    \/ Group
    \/ Stratify
    \/ WeekBackfill
    \/ GlobalBackfill
    \/ FinalShuffle

SpecIrregular == InitIrregular /\ [][NextSampler]_vars

\* ----------------------------------------------------- a POST to /api/score
InitRoute ==
    /\ apiKey \in ApiKeys
    /\ bodyValid \in BOOLEAN
    /\ content = <<>>
    /\ response = NoResponse
    /\ routePc = "checkKey"
    /\ questions = <<>> /\ count = 0 /\ interviewLevel = "entry"
    /\ pc = "idle"
    /\ calls = 0
    /\ byWeek = <<>> /\ weeks = <<>> /\ index = 0
    /\ weekSelected = <<>> /\ selected = <<>> /\ result = <<>>
    /\ ShuffleIdle
    /\ StoreIdle
    /\ ReviewIdle
    /\ QueueIdle
    /\ HistoryIdle

NextRoute ==
    \/ PostCheckKey
    \/ PostReadBody
    \/ PostInvoke
    \/ PostParse
    \/ PostCatch

SpecRoute == InitRoute /\ [][NextRoute]_vars

\* the handler runs to its return statement
SpecRouteFair == SpecRoute /\ WF_vars(NextRoute)

\* ------------------------------------------------------------ createSession
StoreInit ==
    /\ StoreIdle
    /\ ReviewIdle
    /\ QueueIdle
    /\ HistoryIdle
    /\ RouteIdle
    /\ questions = <<>> /\ count = 0 /\ interviewLevel = "entry"
    /\ pc = "idle"
    /\ calls = 0
    /\ byWeek = <<>> /\ weeks = <<>> /\ index = 0
    /\ weekSelected = <<>> /\ selected = <<>> /\ result = <<>>
    /\ ShuffleIdle

NextSession ==
    \/ CreateSession
    \/ ResetSession

SpecSession == StoreInit /\ [][NextSession]_vars

\* ------------------------------------------------------- the interview page
NextInterview ==
    \/ StartInterview
    \/ ResetSession
    \/ HandleComplete
    \/ ScoringSettles
    \/ NextQuestion
    \/ PreviousQuestion
    \/ HandleSkip
    \/ HandleNavigate

SpecInterview == StoreInit /\ [][NextInterview]_vars

\* every fetch settles
SpecInterviewFair == SpecInterview /\ WF_vars(ScoringSettles)

\* ------------------------------------------------- keywords (toggleKeyword)
\* Array.prototype.includes and filter(k => k !== keyword)
Includes(s, x) == \E e \in DOMAIN s : s[e] = x
FilterOut(s, x) == SelectSeq(s, LAMBDA k : k # x)

\* github-service.ts 285-325
toggleKeyword(ses, questionId, keyword) ==
    IF Len(ses) = 0 THEN ses
    ELSE IF questionId \notin DOMAIN ses[1].assessments THEN ses
    ELSE LET assessment == ses[1].assessments[questionId]
         IN  IF Includes(assessment.keywordsHit, keyword)
             THEN <<[ses[1] EXCEPT !.assessments[questionId] =
                       [assessment EXCEPT
                           !.keywordsHit = FilterOut(@, keyword),
                           !.keywordsMissed = Append(@, keyword)]]>>
             ELSE <<[ses[1] EXCEPT !.assessments[questionId] =
                       [assessment EXCEPT
                           !.keywordsHit = Append(@, keyword),
                           !.keywordsMissed = FilterOut(@, keyword)]]>>

\* the keyword lists the parser can give a question (part_001 41-44:
\* split(',').map(k => k.trim()), repeated keywords are kept)
KeywordNames == {"k1", "k2"}
ParsedKeywordLists == UNION {[1..n -> KeywordNames] : n \in 0..MaxKeywords}

\* technical questions with distinct ids and any parsed keyword lists
KeywordInterviewLists ==
    UNION {{[k \in 1..n |-> [id |-> TechId(1, k), keywords |-> kw[k]]] :
               kw \in [1..n -> ParsedKeywordLists]} :
           n \in 1..MaxInterviewQuestions}

\* handleStartInterview for such questions
StartKeywordInterview ==
    /\ nextSessionId <= MaxSessions
    /\ \E selectedQuestions \in KeywordInterviewLists :
          session' = <<NewSession(nextSessionId, generateStarterQuestions,
                                  selectedQuestions)>>
    /\ nextSessionId' = nextSessionId + 1
    /\ isProcessing' = FALSE
    /\ UNCHANGED <<pending, completions>>
    /\ UNCHANGED outsideStore

\* a keyword button of the question card (part_003 117-139, page.tsx 158):
\* one button per entry of the shown question's keywords
ToggleKeyword ==
    /\ PageShown
    /\ LET currentQuestion == getCurrentQuestion(Sess)
       IN  \E i \in DOMAIN currentQuestion.keywords :
              session' = toggleKeyword(session, currentQuestion.id,
                                       currentQuestion.keywords[i])
    /\ UNCHANGED <<nextSessionId, isProcessing, pending, completions>>
    /\ UNCHANGED outsideStore

NextKeywords ==
    \/ StartKeywordInterview
    \/ ToggleKeyword
    \/ NextQuestion
    \/ PreviousQuestion

SpecKeywords == StoreInit /\ [][NextKeywords]_vars

\* ------------------------------------------- the review page (review/page.tsx)
\* github-service.ts 356-359, 370-377, 384-396
markDidNotGetTo(ses, questionId, value) ==
    updateAssessment(ses, questionId, [didNotGetTo |-> value])

validateScore(ses, questionId, score, feedback) ==
    updateAssessment(ses, questionId,
        [finalScore |-> score, finalFeedback |-> feedback, status |-> "validated"])

finishInterview(ses) ==
    IF Len(ses) = 1 THEN <<[ses[1] EXCEPT !.status = "review"]>> ELSE ses

completeReview(ses) ==
    IF Len(ses) = 1 THEN <<[ses[1] EXCEPT !.status = "completed"]>> ELSE ses

\* what the interview page leaves of a question: not reached, marked 'did
\* not get to', scored by /api/score, or scored with the fallback of
\* handleComplete
InterviewOutcomes == {"pending", "didNotGetTo", "scored", "failed"}

ApplyOutcome(ses, q, o) ==
    CASE o = "pending" -> ses
      [] o = "didNotGetTo" -> markDidNotGetTo(ses, q, TRUE)
      [] o = "scored" -> setLLMResult(completeQuestion(ses, q), q, 5, RouteFeedback)
      [] o = "failed" -> setLLMResult(completeQuestion(ses, q), q,
                                      FailureScore, FailureFeedback)

\* the sessions handed to the review page by 'Finish Interview'
\* (interview/page.tsx 100-105): two starter questions and one technical one
ReviewIds == <<StarterIds[1], StarterIds[2], TechId(1, 1)>>
FinishedSessions ==
    {finishInterview(
        ApplyOutcome(
          ApplyOutcome(
            ApplyOutcome(
              <<NewSession(1, generateStarterQuestions, <<InterviewQuestion(1)>>)>>,
              ReviewIds[1], o[1]),
            ReviewIds[2], o[2]),
          ReviewIds[3], o[3])) :
     o \in [1..3 -> InterviewOutcomes]}

\* the review page acts on a session under review (lines 56-64); after
\* completeReview the browser is sent to /pdf
ReviewShown == HasSession /\ Sess.status = "review"

\* assessment.llmScore || 3, assessment.llmFeedback || 'No feedback available.'
NoFeedbackAvailable == "No feedback available."
ScoreOrThree(a) == IF a.llmScore # NoScore THEN a.llmScore ELSE 3
FeedbackOrNone(a) ==
    IF a.llmFeedback # NoFeedback THEN a.llmFeedback ELSE NoFeedbackAvailable

\* lines 247-250
allValidated(s) ==
    \A k \in DOMAIN getAllQuestions(s) :
        LET assessment == s.assessments[getAllQuestions(s)[k].id]
        IN  assessment.didNotGetTo \/ assessment.status = "validated"

\* the action buttons of a question card are rendered (line 528)
CardActions(q) ==
    /\ ReviewShown
    /\ q \in DOMAIN Sess.assessments
    /\ ~Sess.assessments[q].didNotGetTo
    /\ editingId # <<q>>

\* the 'Accept score' button (lines 551-563)
AcceptScore ==
    /\ \E q \in Range(ReviewIds) :
          /\ CardActions(q)
          /\ Sess.assessments[q].status # "validated"
          /\ session' = validateScore(session, q, ScoreOrThree(Sess.assessments[q]),
                                      FeedbackOrNone(Sess.assessments[q]))
    /\ UNCHANGED reviewVars
    /\ UNCHANGED outsideReview

\* handleValidateAll (150-161) over the first n questions
RECURSIVE ValidateAll(_, _)
ValidateAll(ses, n) ==
    IF n = 0 THEN ses
    ELSE LET before == ValidateAll(ses, n - 1)
             q == getAllQuestions(before[1])[n].id
             assessment == before[1].assessments[q]
         IN  IF ~assessment.didNotGetTo /\ assessment.status # "validated"
             THEN validateScore(before, q, ScoreOrThree(assessment),
                                FeedbackOrNone(assessment))
             ELSE before

\* the 'Accept All' button
HandleValidateAll ==
    /\ ReviewShown
    /\ session' = ValidateAll(session, ProgressTotal(Sess))
    /\ UNCHANGED reviewVars
    /\ UNCHANGED outsideReview

\* handleStartEdit (134-141): llmScore || finalScore || 3 and
\* llmFeedback || finalFeedback || ''
HandleStartEdit ==
    /\ \E q \in Range(ReviewIds) :
          /\ CardActions(q)
          /\ editingId' = <<q>>
          /\ editScore' = ScoreOrThree(Sess.assessments[q])
          /\ editFeedback' = IF Sess.assessments[q].llmFeedback # NoFeedback
                             THEN Sess.assessments[q].llmFeedback
                             ELSE ""
    /\ UNCHANGED <<session, retryingId, retries, retryCount, isGeneratingPDF>>
    /\ UNCHANGED outsideReview

\* an assessment is being edited and its form is rendered (455-458)
EditFormShown ==
    /\ ReviewShown
    /\ editingId # <<>>
    /\ ~Sess.assessments[editingId[1]].didNotGetTo

\* the score the interviewer picks and the text they type in the form
EditScores == {2}
EditedFeedback == "edited feedback"

\* the score buttons and the textarea of the form (465-487)
SetEditScore ==
    /\ EditFormShown
    /\ \E score \in EditScores : editScore' = score
    /\ UNCHANGED <<session, editingId, editFeedback, retryingId, retries,
                   retryCount, isGeneratingPDF>>
    /\ UNCHANGED outsideReview

SetEditFeedback ==
    /\ EditFormShown
    /\ editFeedback' = EditedFeedback
    /\ UNCHANGED <<session, editingId, editScore, retryingId, retries,
                   retryCount, isGeneratingPDF>>
    /\ UNCHANGED outsideReview

\* the Cancel button (490-495)
CancelEdit ==
    /\ EditFormShown
    /\ editingId' = <<>>
    /\ UNCHANGED <<session, editScore, editFeedback, retryingId, retries,
                   retryCount, isGeneratingPDF>>
    /\ UNCHANGED outsideReview

\* handleSaveEdit (143-148)
HandleSaveEdit ==
    /\ EditFormShown
    /\ session' = validateScore(session, editingId[1], editScore, editFeedback)
    /\ editingId' = <<>>
    /\ UNCHANGED <<editScore, editFeedback, retryingId, retries, retryCount,
                   isGeneratingPDF>>
    /\ UNCHANGED outsideReview

\* the retry button is offered when the feedback looks like an error
\* (531-534): it includes 'unavailable', 'Unable to', 'could not be parsed'
\* or 'retry'
RetryOffered(a) == a.llmFeedback = FailureFeedback

\* handleRetryScoring up to the fetch (164-193)
HandleRetryScoring ==
    /\ retryCount < MaxRetries
    /\ \E q \in Range(ReviewIds) :
          /\ CardActions(q)
          /\ RetryOffered(Sess.assessments[q])
          /\ retryingId # <<q>>
          /\ retryingId' = <<q>>
          /\ retries' = Append(retries, q)
    /\ retryCount' = retryCount + 1
    /\ UNCHANGED <<session, editingId, editScore, editFeedback, isGeneratingPDF>>
    /\ UNCHANGED outsideReview

\* the ways the retry's fetch can settle: the OK responses are those with
\* the best score
RetrySettlements == {s \in Settlements : s.kind = "ok" => s.score = 5}

\* handleRetryScoring after the fetch has settled (195-205)
RetrySettles ==
    /\ \E k \in 1..Len(retries), settled \in RetrySettlements :
          /\ session' = IF settled.kind = "ok"
                        THEN setLLMResult(session, retries[k],
                                          settled.score, settled.feedback)
                        ELSE session
          /\ retries' = Without(retries, k)
    /\ retryingId' = <<>>
    /\ UNCHANGED <<editingId, editScore, editFeedback, retryCount, isGeneratingPDF>>
    /\ UNCHANGED outsideReview

\* handleGeneratePDF up to the fetch (208-218); the button is disabled
\* unless allValidated and while isGeneratingPDF (276)
HandleGeneratePDF ==
    /\ ReviewShown
    /\ allValidated(Sess)
    /\ ~isGeneratingPDF
    /\ isGeneratingPDF' = TRUE
    /\ UNCHANGED <<session, editingId, editScore, editFeedback, retryingId,
                   retries, retryCount>>
    /\ UNCHANGED outsideReview

\* handleGeneratePDF after the POST to /api/history has settled (221-228):
\* completeReview unless the fetch threw
HistorySaveSettles ==
    /\ isGeneratingPDF
    /\ \E outcome \in {"responded", "throws"} :
          session' = IF outcome = "responded" THEN completeReview(session)
                     ELSE session
    /\ isGeneratingPDF' = FALSE
    /\ UNCHANGED <<editingId, editScore, editFeedback, retryingId, retries,
                   retryCount>>
    /\ UNCHANGED outsideReview

\* the review page is mounted for a finished session
InitReview ==
    /\ session \in {<<s[1]>> : s \in FinishedSessions}
    /\ nextSessionId = 2 /\ isProcessing = FALSE /\ pending = <<>>
    /\ completions = 0
    /\ ReviewIdle
    /\ QueueIdle
    /\ HistoryIdle
    /\ RouteIdle
    /\ questions = <<>> /\ count = 0 /\ interviewLevel = "entry"
    /\ pc = "idle"
    /\ calls = 0
    /\ SamplerIdle
    /\ ShuffleIdle

NextReview ==
    \/ AcceptScore
    \/ HandleValidateAll
    \/ HandleStartEdit
    \/ SetEditScore
    \/ SetEditFeedback
    \/ CancelEdit
    \/ HandleSaveEdit
    \/ HandleRetryScoring
    \/ RetrySettles
    \/ HandleGeneratePDF
    \/ HistorySaveSettles

SpecReview == InitReview /\ [][NextReview]_vars

\* ------------------------------------------ ScoringQueue (langchain.ts 108-162)
\* Items are numbered in the order of their enqueue calls. queuePc holds the
\* activations of processQueue that are suspended at an await, each with the
\* item it shifted: at generateScore ("scoring") or at the 200 ms pause
\* ("pause"). JavaScript runs every handler up to its next await in one piece.

\* mutant: processQueue without the test of this.processing
PassesGuardIgnoringProcessing(flag, q) == ~(Len(q) = 0)

\* line 142: if (this.processing || this.queue.length === 0) return;
PassesGuard(flag, q) == ~(flag \/ Len(q) = 0)

\* the activation that has shifted the first item of q and called generateScore
Scoring(q) == [at |-> "scoring", item |-> Head(q)]

\* enqueue (127-136): push, then processQueue up to its first await
Enqueue ==
    /\ enqueued < MaxEnqueued
    /\ enqueued' = enqueued + 1
    /\ promises' = Append(promises, "pending")
    /\ LET pushed == Append(queue, enqueued + 1)
       IN  IF PassesGuard(processing, pushed)
           THEN /\ processing' = TRUE
                /\ queue' = Tail(pushed)
                /\ queuePc' = Append(queuePc, Scoring(pushed))
                /\ inFlight' = inFlight \cup {Head(pushed)}
                /\ started' = Append(started, Head(pushed))
           ELSE /\ queue' = pushed
                /\ UNCHANGED <<processing, queuePc, inFlight, started>>
    /\ UNCHANGED outsideQueue

\* mutant: no try/catch around generateScore; a rejection ends processQueue
GenerateScoreSettlesUncaught ==
    /\ \E k \in 1..Len(queuePc), outcome \in {"resolved", "rejected"} :
          /\ queuePc[k].at = "scoring"
          /\ inFlight' = inFlight \ {queuePc[k].item}
          /\ IF outcome = "resolved"
             THEN /\ promises' = [promises EXCEPT ![queuePc[k].item] = outcome]
                  /\ queuePc' = [queuePc EXCEPT ![k].at = "pause"]
             ELSE /\ promises' = promises
                  /\ queuePc' = Without(queuePc, k)
    /\ UNCHANGED <<queue, processing, started, enqueued>>
    /\ UNCHANGED outsideQueue

\* generateScore settles (149-157): item.resolve or item.reject, then the
\* pause is started
GenerateScoreSettles ==
    /\ \E k \in 1..Len(queuePc), outcome \in {"resolved", "rejected"} :
          /\ queuePc[k].at = "scoring"
          /\ promises' = [promises EXCEPT ![queuePc[k].item] = outcome]
          /\ inFlight' = inFlight \ {queuePc[k].item}
          /\ queuePc' = [queuePc EXCEPT ![k].at = "pause"]
    /\ UNCHANGED <<queue, processing, started, enqueued>>
    /\ UNCHANGED outsideQueue

\* the pause ends (157, 146-150, 160): the next item is shifted and scored,
\* or the loop ends and processing is reset
PauseEnds ==
    /\ \E k \in 1..Len(queuePc) :
          /\ queuePc[k].at = "pause"
          /\ IF Len(queue) > 0
             THEN /\ queue' = Tail(queue)
                  /\ queuePc' = [queuePc EXCEPT ![k] = Scoring(queue)]
                  /\ inFlight' = inFlight \cup {Head(queue)}
                  /\ started' = Append(started, Head(queue))
                  /\ UNCHANGED processing
             ELSE /\ processing' = FALSE
                  /\ queuePc' = Without(queuePc, k)
                  /\ UNCHANGED <<queue, inFlight, started>>
    /\ UNCHANGED <<promises, enqueued>>
    /\ UNCHANGED outsideQueue

\* new ScoringQueue(apiKey)
InitQueue ==
    /\ QueueIdle
    /\ ReviewIdle
    /\ HistoryIdle
    /\ session = <<>> /\ nextSessionId = 1 /\ isProcessing = FALSE
    /\ pending = <<>> /\ completions = 0
    /\ RouteIdle
    /\ questions = <<>> /\ count = 0 /\ interviewLevel = "entry"
    /\ pc = "idle"
    /\ calls = 0
    /\ SamplerIdle
    /\ ShuffleIdle

NextQueue ==
    \/ Enqueue
    \/ GenerateScoreSettles
    \/ PauseEnds

SpecQueue == InitQueue /\ [][NextQueue]_vars

\* every generateScore call settles and every timer fires
SpecQueueFair ==
    SpecQueue /\ WF_vars(GenerateScoreSettles) /\ WF_vars(PauseEnds)

\* ------------------------------------- /api/history (app/api/history/route.ts)
\* A stored session is its id and a payload standing for the rest of the
\* session. A request is handled in two pieces: up to `await request.json()`,
\* and from there to the response; the second piece has no await.
HistoryIds == 1..(MaxHistory + 1)
HistoryPayloads == {"first", "second"}
HistorySessions == [id : HistoryIds, payload : HistoryPayloads]

\* the requests a client can send; bodyOk is FALSE when request.json() throws
HistoryRequests ==
    [method : {"POST"}, session : HistorySessions, bodyOk : BOOLEAN]
    \cup [method : {"DELETE"}, sessionId : HistoryIds, bodyOk : BOOLEAN]

\* history.findIndex(h => h.id === session.id), 0 for -1
FindIndex(h, id) ==
    IF \E k \in 1..Len(h) : h[k].id = id
    THEN CHOOSE k \in 1..Len(h) :
            h[k].id = id /\ \A j \in 1..(k - 1) : h[j].id # id
    ELSE 0

\* mutant: without the slice(0, 100)
PostResultUntrimmed(h, s) ==
    LET existingIndex == FindIndex(h, s.id)
    IN  IF existingIndex >= 1
        THEN [h EXCEPT ![existingIndex] = s]
        ELSE <<s>> \o h

\* lines 59-68: replace in place or unshift, then slice(0, 100)
PostResult(h, s) ==
    LET existingIndex == FindIndex(h, s.id)
        updated == IF existingIndex >= 1
                   THEN [h EXCEPT ![existingIndex] = s]
                   ELSE <<s>> \o h
    IN  SubSeq(updated, 1, Min(Len(updated), MaxHistory))

\* line 84: history.filter(h => h.id !== sessionId)
DeleteResult(h, sessionId) == SelectSeq(h, LAMBDA e : e.id # sessionId)

\* what a request makes of the history h it reads
Handled(h, req) ==
    IF ~req.bodyOk THEN h
    ELSE IF req.method = "POST" THEN PostResult(h, req.session)
    ELSE DeleteResult(h, req.sessionId)

\* mutant: the history read when the request arrived
readHistoryAtArrival(k) == requests[k].seen

\* readHistory (20-32), called by the handler of requests[k] after the body
\* has been read
readHistory(k) == history

\* a request arrives: its handler runs up to await request.json() (54, 81);
\* seen records the history at that moment, which the handler does not read
RequestArrives ==
    /\ Len(arrived) < MaxBatch \/ requests = <<>>
    /\ \E req \in HistoryRequests :
          /\ requests' = Append(requests, [req |-> req, seen |-> history])
          /\ IF requests = <<>>
             THEN /\ arrived' = <<req>>
                  /\ base' = history
             ELSE /\ arrived' = Append(arrived, req)
                  /\ base' = base
    /\ UNCHANGED history
    /\ UNCHANGED outsideHistory

\* the rest of a handler (POST 56-71, DELETE 83-87, catch 72-75 and 88-91):
\* read, change and write the history, or answer 500 without a change
RequestHandled ==
    /\ \E k \in 1..Len(requests) :
          /\ history' = Handled(readHistory(k), requests[k].req)
          /\ requests' = Without(requests, k)
    /\ UNCHANGED <<arrived, base>>
    /\ UNCHANGED outsideHistory

\* the server starts without a history file
InitHistory ==
    /\ HistoryIdle
    /\ ReviewIdle
    /\ QueueIdle
    /\ session = <<>> /\ nextSessionId = 1 /\ isProcessing = FALSE
    /\ pending = <<>> /\ completions = 0
    /\ RouteIdle
    /\ questions = <<>> /\ count = 0 /\ interviewLevel = "entry"
    /\ pc = "idle"
    /\ calls = 0
    /\ SamplerIdle
    /\ ShuffleIdle

NextHistory ==
    \/ RequestArrives
    \/ RequestHandled

SpecHistory == InitHistory /\ [][NextHistory]_vars

\* ================================================================ properties
DistinctIds(arr) ==
    \A a, b \in DOMAIN arr : a # b => arr[a].id # arr[b].id

Done == pc = "done"

\* the number of week groups, the questions and the quota of the k-th group
\* in enumeration order (k = 1 is the first)
NumWeeks == Len(weeks)
WeekQuestionsAt(k) == MapGet(byWeek, weeks[k])
WeekQuotaAt(k) == weekCount(count, NumWeeks, k - 1)

\* the number of questions the per-week steps of the first k groups contribute
RECURSIVE PerWeekSum(_)
PerWeekSum(k) ==
    IF k = 0 THEN 0
    ELSE Min(Max(WeekQuotaAt(k), 0), Len(WeekQuestionsAt(k))) + PerWeekSum(k - 1)

PerWeekTotal == PerWeekSum(NumWeeks)

CountOf(arr, x) == Cardinality({k \in DOMAIN arr : arr[k] = x})

IsPermutationOf(a, b) ==
    /\ Len(a) = Len(b)
    /\ \A x \in Range(a) \cup Range(b) : CountOf(a, x) = CountOf(b, x)

NumOfDifficulty(arr, d) == Cardinality({k \in DOMAIN arr : arr[k].difficulty = d})

\* ---------------------------------------------------------------------- C1
\* C1: for a pool with pairwise distinct ids and count >= 0 the result has
\* exactly min(count, pool.length) questions.
C1_ResultLength ==
    (Done /\ count >= 0 /\ DistinctIds(questions))
        => Len(result) = Min(count, Len(questions))

\* a full-size result although one week could not fill its quota
C1_Witness ==
    /\ Done /\ count > 0 /\ count <= Len(questions)
    /\ NumWeeks = 2
    /\ \E k \in 1..NumWeeks : Len(WeekQuestionsAt(k)) < WeekQuotaAt(k)
    /\ Len(result) = count

\* ---------------------------------------------------------------------- C2
\* C2: for a pool with pairwise distinct ids the result never contains two
\* elements with the same id.
C2_NoDuplicateIds ==
    (Done /\ DistinctIds(questions)) => DistinctIds(result)

\* a result to which the stratified step, the per-week backfill and the
\* global backfill have all contributed
C2_Witness ==
    /\ Done /\ DistinctIds(questions) /\ NumWeeks = 2
    /\ interviewLevel = "entry"
    /\ PerWeekTotal < count
    /\ OfDifficulty(WeekQuestionsAt(1), "beginner") = WeekQuestionsAt(1)
    /\ WeekQuotaAt(2) = 1
    /\ Len(weekSelected) = 1 /\ weekSelected[1].difficulty # "beginner"
    /\ Len(result) = 3
    /\ Len(result) < Len(questions)

\* ---------------------------------------------------------------------- C3
\* C3: every element of the result is an element of the input pool.
C3_FromPool ==
    Done => \A k \in DOMAIN result :
               /\ result[k] \in Range(questions)
               /\ result[k].id \in IdSet(questions)

\* count exceeds the pool size and the whole pool is returned
C3_Witness ==
    /\ Done /\ count > Len(questions) /\ Len(questions) >= 2
    /\ Range(result) = Range(questions)

\* ---------------------------------------------------------------------- C4
\* C4: if count >= the number of week groups (and every group has a question,
\* which holds of every group), the result contains a question of every group.
C4_WeekCoverage ==
    (Done /\ NumWeeks >= 1 /\ count >= NumWeeks /\ DistinctIds(questions)
          /\ \A k \in 1..NumWeeks : Len(WeekQuestionsAt(k)) >= 1)
        => \A k \in 1..NumWeeks : \E r \in DOMAIN result : WeekKey(result[r]) = weeks[k]

\* two weeks, a result smaller than the pool, and the week with a single
\* question has none of the difficulty the stratified step takes first
C4_Witness ==
    /\ Done /\ NumWeeks = 2 /\ count = 2 /\ Len(questions) = 4
    /\ \E k \in 1..NumWeeks :
          /\ Len(WeekQuestionsAt(k)) = 1
          /\ WeekQuestionsAt(k)[1].difficulty = "advanced"
    /\ interviewLevel = "entry"
    /\ \A k \in 1..NumWeeks : \E r \in DOMAIN result : WeekKey(result[r]) = weeks[k]

\* ---------------------------------------------------------------------- C5
\* C5: for count <= 0 the result is empty (and every step is taken).
C5_NonPositiveCountEmpty ==
    /\ (count <= 0 /\ pc \in {"weekBackfill", "stratify", "globalBackfill", "finalShuffle", "done"})
          => (selected = <<>> /\ weekSelected = <<>>)
    /\ (Done /\ count <= 0) => result = <<>>

\* a negative count on a pool with three beginner questions in one week
C5_Witness ==
    /\ Done /\ count < 0 /\ result = <<>>
    /\ NumWeeks >= 1
    /\ \E k \in 1..NumWeeks :
          /\ WeekQuotaAt(k) < 0
          /\ Len(OfDifficulty(WeekQuestionsAt(k), "beginner")) >= 3

\* ---------------------------------------------------------------------- C6
\* every (week, difficulty) cell of the pool holds at least count questions
Abundant ==
    \A k \in 1..NumWeeks : \A d \in Difficulties :
       Len(OfDifficulty(WeekQuestionsAt(k), d)) >= count

\* the advanced targets of the first k groups for a level
RECURSIVE AdvancedTargetSum(_, _)
AdvancedTargetSum(k, level) ==
    IF k = 0 THEN 0
    ELSE advancedCount(WeekQuotaAt(k), level,
                       Len(OfDifficulty(WeekQuestionsAt(k), "advanced")))
         + AdvancedTargetSum(k - 1, level)

\* C6: with abundant supply in every cell, every result for 'experienced' has
\* at least as many advanced questions as every result for 'entry' (same pool
\* and count): every result of a level has exactly the sum of that level's
\* advanced targets, and that sum is at least as large for 'experienced'.
C6_AdvancedShare ==
    (Done /\ count >= 0 /\ NumWeeks >= 1 /\ Abundant)
        => /\ NumOfDifficulty(result, "advanced")
                = AdvancedTargetSum(NumWeeks, interviewLevel)
           /\ AdvancedTargetSum(NumWeeks, "experienced")
                >= AdvancedTargetSum(NumWeeks, "entry")

\* an abundant two-week pool, an 'experienced' result with advanced questions
C6_Witness ==
    /\ Done /\ count >= 2 /\ NumWeeks = 2 /\ Abundant
    /\ interviewLevel = "experienced"
    /\ NumOfDifficulty(result, "advanced") >= 2
    /\ AdvancedTargetSum(NumWeeks, "entry") = 0

\* ---------------------------------------------------------------------- C7
\* C7: the per-week step (stratified picks plus per-week backfill) of a week
\* with quota q >= 0 and n questions selects exactly min(q, n) questions with
\* pairwise distinct ids, all of them questions of that week.
C7_PerWeekStep ==
    (count >= 0 /\ index >= 1 /\ pc # "weekBackfill" /\ DistinctIds(questions))
        => LET q == WeekQuotaAt(index)
               wq == WeekQuestionsAt(index)
           IN  /\ q >= 0
               /\ Len(weekSelected) = Min(q, Len(wq))
               /\ Len(weekSelected) <= q
               /\ DistinctIds(weekSelected)
               /\ \A e \in DOMAIN weekSelected :
                     /\ weekSelected[e] \in Range(wq)
                     /\ WeekKey(weekSelected[e]) = weeks[index]

\* a week of intermediate questions only (empty beginner and advanced
\* buckets) fills its quota of 2 with intermediate questions
C7_Witness ==
    /\ index >= 1 /\ pc # "weekBackfill" /\ interviewLevel = "experienced"
    /\ WeekQuotaAt(index) = 2
    /\ Len(WeekQuestionsAt(index)) = 3
    /\ OfDifficulty(WeekQuestionsAt(index), "intermediate") = WeekQuestionsAt(index)
    /\ Len(weekSelected) = 2

\* a quota larger than the week's supply yields the whole week
C7_WitnessShortWeek ==
    /\ index >= 1 /\ pc # "weekBackfill"
    /\ WeekQuotaAt(index) > Len(WeekQuestionsAt(index))
    /\ Len(weekSelected) = Len(WeekQuestionsAt(index))
    /\ Len(weekSelected) >= 2

\* ---------------------------------------------------------------------- C8
\* round half up of num / 10
RoundHalfUpTenths(num) == (2 * num + 10) \div 20

StratifiedPicksAre(a, i) ==
    LET wq == MapGet(byWeek, CurWeek)
        nB == Len(OfDifficulty(wq, "beginner"))
    IN  /\ NumOfDifficulty(weekSelected, "advanced") = a
        /\ NumOfDifficulty(weekSelected, "intermediate") = i
        /\ NumOfDifficulty(weekSelected, "beginner") = Min(nB, Max(0, CurWeekCount - i - a))
        /\ Len(weekSelected) = a + i + Min(nB, Max(0, CurWeekCount - i - a))

ClaimedAdvancedTenths == IF interviewLevel = "entry" THEN 1 ELSE 5

\* C8 as stated: the stratified picks of a week with quota q are
\* a = min(|advanced|, round(q * advancedRatio)) advanced,
\* i = min(|intermediate|, round(q * intermediateRatio)) intermediate and
\* min(|beginner|, max(0, q - i - a)) beginner questions.
C8_StratifiedPicksAsStated ==
    pc = "weekBackfill"
        => LET wq == MapGet(byWeek, CurWeek)
               q == CurWeekCount
           IN  StratifiedPicksAre(
                   Min(Len(OfDifficulty(wq, "advanced")),
                       RoundHalfUpTenths(q * ClaimedAdvancedTenths)),
                   Min(Len(OfDifficulty(wq, "intermediate")),
                       RoundHalfUpTenths(q * 4)))

\* C8 amended: the rounded targets are clamped at 0 from below,
\* a = min(|advanced|, max(0, round(q * advancedRatio))) and
\* i = min(|intermediate|, max(0, round(q * intermediateRatio))); the beginner
\* count is min(|beginner|, max(0, q - i - a)) as stated.
C8_StratifiedPicks ==
    pc = "weekBackfill"
        => LET wq == MapGet(byWeek, CurWeek)
               q == CurWeekCount
           IN  StratifiedPicksAre(
                   Min(Len(OfDifficulty(wq, "advanced")),
                       Max(0, RoundHalfUpTenths(q * ClaimedAdvancedTenths))),
                   Min(Len(OfDifficulty(wq, "intermediate")),
                       Max(0, RoundHalfUpTenths(q * 4))))

\* quota 3 for 'experienced' with a single advanced question: the advanced
\* target 2 is clamped to 1 and a beginner question makes up for it
C8_Witness ==
    /\ pc = "weekBackfill" /\ interviewLevel = "experienced"
    /\ CurWeekCount = 3
    /\ Len(OfDifficulty(MapGet(byWeek, CurWeek), "advanced")) = 1
    /\ NumOfDifficulty(weekSelected, "advanced") = 1
    /\ NumOfDifficulty(weekSelected, "intermediate") = 1
    /\ NumOfDifficulty(weekSelected, "beginner") = 1

\* ---------------------------------------------------------------------- C9
\* C9: shuffleArray returns a permutation of its input (same length, same
\* elements with the same multiplicities) and never modifies the input; the
\* final shuffle of selectRandomQuestions returns a permutation of the
\* selection and leaves the selection as it is.
C9_ShufflePermutes ==
    /\ [](shufflePc = "done" => IsPermutationOf(shuffled, array))
    /\ [][array' = array]_vars
    /\ [](Done => IsPermutationOf(result, selected))
    /\ [][pc = "finalShuffle" => selected' = selected]_vars

\* an array with repeated elements returned in a different order
C9_Witness ==
    /\ shufflePc = "done" /\ Len(array) >= 3
    /\ CountOf(array, 1) = 2
    /\ shuffled # array
    /\ IsPermutationOf(shuffled, array)

\* --------------------------------------------------------------------- C10
RECURSIVE Factorial(_)
Factorial(n) == IF n <= 1 THEN 1 ELSE n * Factorial(n - 1)

DistinctElements(arr) == \A a, b \in DOMAIN arr : a # b => arr[a] # arr[b]

\* C10: for an input of n distinct elements the n! sequences of draws produce
\* n! different results, all of them permutations of the input, so every
\* permutation is produced by exactly one sequence of draws; the result of a
\* call is the one its own draws produce and no other sequence produces it.
C10_FisherYatesBijective ==
    (shufflePc = "done" /\ DistinctElements(array))
        => LET n == Len(array)
               outcomes == ShuffleOutcomes(array)
           IN  /\ draws \in DrawSeqs(n)
               /\ shuffled = shuffleArray(array, draws)
               /\ \A d \in DrawSeqs(n) : shuffleArray(array, d) = shuffled => d = draws
               /\ Cardinality(DrawSeqs(n)) = Factorial(n)
               /\ Cardinality(outcomes) = Factorial(n)
               /\ \A o \in outcomes : IsPermutationOf(o, array)

\* the reversal of the longest input of distinct elements
C10_Witness ==
    /\ shufflePc = "done" /\ DistinctElements(array)
    /\ Len(array) = MaxShuffleLen
    /\ \A k \in DOMAIN array : shuffled[k] = array[Len(array) + 1 - k]

\* --------------------------------------------------------------------- C11
\* what the first statements of a call compute from the arguments alone
FreshGrouping ==
    /\ byWeek = GroupByWeek(<<>>, questions)
    /\ weeks = ArraySort(MapKeys(byWeek))

\* C11: selectRandomQuestions does not modify the pool it is given (contents
\* and order) and keeps no state between calls: no step of a call, and no
\* further call, changes the pool or the count, and every call, the first and
\* a later one alike, starts its week loop at the first week with an empty
\* selection and a grouping computed from the pool alone.
C11_SideEffectFree ==
    /\ [][questions' = questions /\ count' = count]_vars
    /\ [](pc = "stratify" /\ index = 0 => selected = <<>> /\ FreshGrouping)
    /\ [](Done /\ Len(questions) = 0 => result = <<>>)
    /\ [](Done /\ count >= 0 /\ Len(questions) > 0
              => /\ Len(result) = Min(count, Len(questions))
                 /\ Range(result) \subseteq Range(questions))

\* a second call on the same two-question pool has returned both questions
C11_Witness ==
    /\ calls = MaxCalls /\ Done
    /\ Len(questions) = 2 /\ count = 2 /\ Len(result) = 2

\* --------------------------------------------------------------------- C15
\* some week group holds fewer questions than its quota
SomeWeekShort == \E k \in 1..NumWeeks : Len(WeekQuestionsAt(k)) < WeekQuotaAt(k)

\* C15 as stated: after all weeks are processed the selection is short of
\* count, and the global backfill adds questions, only if the pool is smaller
\* than count.
C15_BackfillOnlyWhenPoolShort ==
    pc = "globalBackfill" /\ Len(selected) < count => Len(questions) < count

\* C15, amended: after all weeks are processed the selection is short of count
\* exactly when some week group holds fewer questions than its quota; the
\* global backfill then adds questions of the other weeks, so that the
\* selection has min(count, pool size) questions afterwards, also when the
\* pool holds at least count questions.
C15_GlobalBackfillWhenWeekShort ==
    /\ [](pc = "globalBackfill" /\ DistinctIds(questions)
            => (Len(selected) < count <=> SomeWeekShort))
    /\ [](pc = "finalShuffle" /\ DistinctIds(questions) /\ count >= 0
            => Len(selected) = Min(count, Len(questions)))
    /\ [][pc = "globalBackfill" /\ ~(Len(selected) < count)
            => selected' = selected]_vars

\* a pool of 4 questions, count 4: one week holds a single question against
\* a quota of 2, and the global backfill has added a third question of the
\* other week
C15_Witness ==
    /\ pc = "finalShuffle" /\ count = 4 /\ Len(questions) = 4 /\ NumWeeks = 2
    /\ SomeWeekShort
    /\ PerWeekTotal = 3 /\ Len(selected) = 4
    /\ \E w \in WeekNumbers :
          Cardinality({k \in DOMAIN selected : selected[k].weekNumber = w}) = 3

\* --------------------------------------------------------------------- C16
RECURSIVE QuotaSum(_)
QuotaSum(k) == IF k = 0 THEN 0 ELSE QuotaSum(k - 1) + WeekQuotaAt(k)

\* floor(count/k)+1 for the first (count mod k) groups, floor(count/k) for the rest
StatedQuota(k) ==
    (count \div NumWeeks) + (IF k <= count % NumWeeks THEN 1 ELSE 0)

\* C16: for count >= 0 and k >= 1 week groups the quota of the group at
\* position p (1-based, enumeration order) is floor(count/k)+1 for
\* p <= count mod k and floor(count/k) otherwise; the quotas of any two weeks
\* differ by at most 1 and sum to count; the quota is the one the week's
\* step works with.
C16_QuotaSplit ==
    count >= 0 /\ NumWeeks >= 1 /\ pc \in {"stratify", "weekBackfill"}
        => /\ \A k \in 1..NumWeeks : WeekQuotaAt(k) = StatedQuota(k)
           /\ \A a, b \in 1..NumWeeks : WeekQuotaAt(a) - WeekQuotaAt(b) <= 1
           /\ QuotaSum(NumWeeks) = count
           /\ CurWeekCount = StatedQuota(index + 1)

\* count 5 over two weeks: the second week is processed with quota 2 after
\* the first had quota 3
C16_Witness ==
    /\ pc = "weekBackfill" /\ count = 5 /\ NumWeeks = 2 /\ index = 1
    /\ WeekQuotaAt(1) = 3 /\ CurWeekCount = 2

\* --------------------------------------------------------------------- C19
ResultFromWeek(k) ==
    Cardinality({e \in DOMAIN result : WeekKey(result[e]) = weeks[k]})

EveryWeekSupplied ==
    /\ DistinctIds(questions) /\ count >= 0
    /\ \A k \in 1..NumWeeks : Len(WeekQuestionsAt(k)) >= WeekQuotaAt(k)

\* C19: if every week group holds at least as many questions as its quota
\* (distinct ids, count >= 0), the selection is complete before the global
\* backfill, which adds nothing, and the result holds exactly quota_w
\* questions of each week w, so the per-week counts differ by at most one.
C19_BalancedWhenSupplied ==
    /\ [](pc = "globalBackfill" /\ EveryWeekSupplied => Len(selected) = count)
    /\ [][pc = "globalBackfill" /\ EveryWeekSupplied => selected' = selected]_vars
    /\ [](Done /\ NumWeeks >= 1 /\ EveryWeekSupplied
            => /\ \A k \in 1..NumWeeks : ResultFromWeek(k) = WeekQuotaAt(k)
               /\ \A a, b \in 1..NumWeeks : ResultFromWeek(a) - ResultFromWeek(b) <= 1
               /\ Len(result) = count)

\* count 3 from two weeks of two questions each: two from the first group,
\* one from the second
C19_Witness ==
    /\ Done /\ count = 3 /\ NumWeeks = 2 /\ EveryWeekSupplied
    /\ Len(questions) = 4
    /\ ResultFromWeek(1) = 2 /\ ResultFromWeek(2) = 1

\* --------------------------------------------------------------------- C17
Grouped == pc \in {"stratify", "weekBackfill", "globalBackfill", "finalShuffle", "done"}

\* C17: when quotas are assigned the week groups are enumerated in ascending
\* numeric weekNumber order, whatever the weekNumbers and the order of the
\* pool, so the week at position p receives the extra question exactly when
\* it is one of the (count mod numWeeks) numerically smallest weeks.
C17_AscendingWeekOrder ==
    Grouped /\ NumWeeks >= 1
        => /\ \A a, b \in 1..NumWeeks : a < b => weeks[a] < weeks[b]
           /\ \A p \in 1..NumWeeks :
                 count >= 0 =>
                    (WeekQuotaAt(p) = perWeek(count, NumWeeks) + 1
                       <=> Cardinality({w \in Range(weeks) : w < weeks[p]})
                              < remainder(count, NumWeeks))

\* --------------------------------------------------------------------- C12
\* C12: a single result never contains two elements with the same id, also
\* when two questions of the pool share an id.
C12_NoDuplicateIdsAnyPool ==
    Done => DistinctIds(result)

\* --------------------------------------------------------------------- C18
\* the group (position in byWeek) that holds the question at pool position p
GroupOf(p) ==
    CHOOSE e \in 1..Len(byWeek) :
        \E k \in DOMAIN byWeek[e].val : byWeek[e].val[k] = questions[p]

\* C18: two questions are in the same group exactly when they have the same
\* weekNumber (absent counting as one value of its own), so the catch-all
\* group of the questions without weekNumber holds no question that carries
\* a weekNumber, and there are as many groups as distinct weekNumber values.
C18_GroupsByWeekNumber ==
    Grouped =>
        /\ \A a, b \in DOMAIN questions :
              (GroupOf(a) = GroupOf(b)) <=> (questions[a].weekNumber = questions[b].weekNumber)
        /\ NumWeeks = Cardinality({questions[p].weekNumber : p \in DOMAIN questions})

\* --------------------------------------------------------------------- C13
\* some score pattern matches somewhere in the reply
HasScoreMatch(c) ==
    \E p \in 1..Len(c) :
       \/ LabelDigitMatchesAt(c, "SCORE:", p)
       \/ LabelDigitMatchesAt(c, "**SCORE**:", p)
       \/ (IsDigitAt(c, p) /\ SlashFiveEnd(c, p + 1) > 0)

\* what an answer of the handler looks like
ScoreAnswer ==
    routePc = "responded" =>
        /\ response.score \in 1..5
        /\ Chars(response.feedback) > 0
        /\ ~KeyUsable(apiKey) =>
              /\ response.score = 3
              /\ response.feedback = <<KeyMissingMessage>>
        /\ response.error =>
              /\ response.score = 3
              /\ response.feedback = <<UnavailableMessage>>
        /\ KeyUsable(apiKey) /\ ~response.error =>
              IF HasScoreMatch(content)
              THEN \E p \in 1..Len(content) :
                      /\ content[p] \in DigitTokens
                      /\ response.score = Min(5, Max(1, parseInt(content[p])))
              ELSE response.score = 3

\* C13: POST /api/score always answers, with an integer score in 1..5 and a
\* non-empty feedback: score 3 and an explanatory message when the API key is
\* missing or unusable and when the body or the LLM call throws, 3 when no
\* score pattern matches the reply, and otherwise a digit of the reply
\* clamped into 1..5.
C13_ScoreAlwaysAnswers ==
    /\ <>(routePc = "responded")
    /\ []ScoreAnswer

\* the reply "SCORE: 9" is answered with score 5 and the note that no
\* feedback could be parsed
C13_Witness ==
    /\ routePc = "responded" /\ Len(content) = 3
    /\ content[1] = "SCORE:" /\ content[2] = " " /\ content[3] = "9"
    /\ response.score = 5
    /\ response.feedback = <<NotParsedMessage>>

\* --------------------------------------------------------------------- C20
\* the assessment stored under the id of question q is q's initial assessment
InitialAssessmentOf(s, q) ==
    /\ q.id \in DOMAIN s.assessments
    /\ s.assessments[q.id].questionId = q.id
    /\ s.assessments[q.id].status = "pending"
    /\ s.assessments[q.id].didNotGetTo = FALSE
    /\ s.assessments[q.id].keywordsHit = <<>>
    /\ s.assessments[q.id].keywordsMissed = q.keywords

FreshSession(s) ==
    /\ s.status = "in-progress"
    /\ s.currentQuestionIndex = 0
    /\ Len(s.starterQuestions) = 2
    /\ Cardinality(DOMAIN s.assessments) = Len(getAllQuestions(s))
    /\ DOMAIN s.assessments = {getAllQuestions(s)[k].id : k \in DOMAIN getAllQuestions(s)}
    /\ \A k \in DOMAIN getAllQuestions(s) : InitialAssessmentOf(s, getAllQuestions(s)[k])

\* C20: createSession builds a session in status 'in-progress' with
\* currentQuestionIndex 0 and exactly one assessment per question, keyed by
\* question id: one for each of the 2 starter questions and one for each
\* question returned by the sampler, and no others; each starts 'pending',
\* didNotGetTo false, keywordsHit empty and keywordsMissed equal to the
\* question's keywords (empty for starter questions).
C20_OneAssessmentPerQuestion ==
    HasSession => FreshSession(Sess)

\* the same for the sessions whose technical questions have distinct ids
FreshSessionForDistinctIds ==
    HasSession /\ DistinctIds(Sess.questions) => FreshSession(Sess)

\* --------------------------------------------------------------------- C14
\* the ids of the questions of the sessions started from the home page
AllIds == Range(StarterIds) \cup {TechId(1, n) : n \in 1..MaxInterviewQuestions}

\* the assessment of question q of session sid is being scored
Processing(sid, q) ==
    /\ HasSession /\ Sess.id = sid
    /\ q \in DOMAIN Sess.assessments
    /\ Sess.assessments[q].status = "processing"

\* it has its result
ReadyScored(sid, q) ==
    /\ HasSession /\ Sess.id = sid
    /\ q \in DOMAIN Sess.assessments
    /\ Sess.assessments[q].status = "ready"
    /\ Sess.assessments[q].llmScore \in 1..5

\* session sid has been discarded or replaced by the interviewer
SessionGone(sid) == ~HasSession \/ Sess.id # sid

\* a stored result is that of an OK response, or the neutral score with the note
ResultsWellFormed ==
    HasSession =>
        \A q \in DOMAIN Sess.assessments :
            Sess.assessments[q].status = "ready" =>
                \/ /\ Sess.assessments[q].llmScore \in 1..5
                   /\ Sess.assessments[q].llmFeedback = RouteFeedback
                \/ /\ Sess.assessments[q].llmScore = 3
                   /\ Sess.assessments[q].llmFeedback = FailureFeedback

\* a settling fetch leaves the session in place and in its status
SettlingKeepsSession ==
    Len(pending') < Len(pending) =>
        /\ HasSession' = HasSession
        /\ HasSession => Sess'.id = Sess.id /\ Sess'.status = Sess.status

\* an assessment in 'processing' has its scoring request in flight
ProcessingHasRequest ==
    HasSession =>
        \A q \in DOMAIN Sess.assessments :
            Sess.assessments[q].status = "processing" =>
                \E k \in 1..Len(pending) :
                    pending[k].questionId = q /\ pending[k].forSession = Sess.id

\* within a session an assessment leaves 'processing' only for 'ready',
\* with an llmScore in 1..5
ProcessingEndsReady ==
    HasSession /\ HasSession' /\ Sess'.id = Sess.id =>
        \A q \in DOMAIN Sess.assessments :
            /\ Sess.assessments[q].status = "processing"
            /\ Sess'.assessments[q].status # "processing"
            => /\ Sess'.assessments[q].status = "ready"
               /\ Sess'.assessments[q].llmScore \in 1..5

\* C14: on the interview page every assessment that 'Complete & Continue'
\* puts into 'processing' reaches 'ready' with an llmScore in 1..5 once its
\* scoring request settles (given that every fetch settles, and for as long
\* as the interviewer does not discard or replace the session), whether the
\* request succeeds, answers non-OK or throws; the last two store score 3
\* with an explanatory feedback; no outcome removes the session or changes
\* its status. In parts: a 'processing' assessment has a request in flight,
\* every request in flight settles, the assessment leaves 'processing' only
\* for 'ready'; this is also checked directly for the first question of the
\* first session.
C14_ProcessingBecomesReady ==
    /\ []ProcessingHasRequest
    /\ []<>(pending = <<>>)
    /\ [][ProcessingEndsReady]_vars
    /\ Processing(1, StarterIds[1])
          ~> (ReadyScored(1, StarterIds[1]) \/ SessionGone(1))
    /\ []ResultsWellFormed
    /\ [][SettlingKeepsSession]_vars

\* the first starter question was completed, its request failed, and the
\* session went on to the second question with score 3 and the note
C14_Witness ==
    /\ HasSession /\ pending = <<>> /\ ~isProcessing
    /\ Sess.assessments[StarterIds[1]].status = "ready"
    /\ Sess.assessments[StarterIds[1]].llmScore = FailureScore
    /\ Sess.assessments[StarterIds[1]].llmFeedback = FailureFeedback
    /\ Sess.currentQuestionIndex = 1
    /\ Sess.status = "in-progress"

\* --------------------------------------------------------------------- C21
\* the 0-based index of the question with id q in session s
IndexOfQuestion(s, q) ==
    CHOOSE i \in 0..(ProgressTotal(s) - 1) : getAllQuestions(s)[i + 1].id = q

\* the request pending[k] settles in this step, in the session it was made for
SettlesInSession(k) ==
    /\ k \in 1..Len(pending)
    /\ pending' = Without(pending, k)
    /\ HasSession /\ Sess.id = pending[k].forSession

\* C21: pressing 'Complete & Continue' on the question at index i (not the
\* last one) leaves the interview at index i + 1 once scoring has returned,
\* for every interleaving of the pending request with Next, Previous, Skip
\* and progress-dot navigation.
C21_CompletionAdvancesByOne ==
    [][\A k \in 1..Len(pending) :
          SettlesInSession(k) /\ pending[k].advance
          => Sess'.currentQuestionIndex
                = IndexOfQuestion(Sess, pending[k].questionId) + 1]_vars

\* what the code does: when scoring returns, the index moves one past the
\* question shown at that moment, capped at the last question
C21_AdvancesFromShownQuestion ==
    [][\A k \in 1..Len(pending) :
          SettlesInSession(k) /\ pending[k].advance
          => Sess'.currentQuestionIndex
                = Min(Sess.currentQuestionIndex + 1, ProgressTotal(Sess) - 1)]_vars

\* --------------------------------------------------------------------- C22
\* the fields setLLMResult writes
ResultFields == {"llmScore", "llmFeedback", "status"}

\* the request pending[k] settles in this step
Settles(k) ==
    /\ k \in 1..Len(pending)
    /\ pending' = Without(pending, k)

\* assessment a holds a scoring result
HoldsResult(a) ==
    /\ a.status = "ready"
    /\ \/ a.llmScore \in OkScores /\ a.llmFeedback = RouteFeedback
       \/ a.llmScore = FailureScore /\ a.llmFeedback = FailureFeedback

\* C22: the score and feedback of a scoring response are written (llmScore,
\* llmFeedback, status 'ready') to the assessment of the question for which
\* 'Complete & Continue' was pressed and to no other assessment, wherever
\* the interviewer has navigated while the request was pending; all other
\* assessments and the other fields of that assessment are left unchanged.
C22_ResultGoesToCompletedQuestion ==
    [][\A k \in 1..Len(pending) :
          Settles(k) /\ HasSession
          => /\ HasSession'
             /\ DOMAIN Sess'.assessments = DOMAIN Sess.assessments
             /\ \A x \in DOMAIN Sess.assessments :
                   IF x = pending[k].questionId
                   THEN /\ \A f \in (DOMAIN Sess.assessments[x]) \ ResultFields :
                              Sess'.assessments[x][f] = Sess.assessments[x][f]
                        /\ Sess.id = pending[k].forSession
                              => HoldsResult(Sess'.assessments[x])
                   ELSE Sess'.assessments[x] = Sess.assessments[x]]_vars

\* the first question was completed, the interviewer went on to the last
\* question while the request was pending, and the result is stored for the
\* first question only
C22_Witness ==
    /\ HasSession /\ pending = <<>> /\ completions = 1
    /\ Sess.currentQuestionIndex = ProgressTotal(Sess) - 1
    /\ Sess.currentQuestionIndex >= 2
    /\ Sess.assessments[StarterIds[1]].status = "ready"
    /\ Sess.assessments[StarterIds[1]].llmScore = 5
    /\ \A x \in (DOMAIN Sess.assessments) \ {StarterIds[1]} :
          Sess.assessments[x].status = "pending"

\* --------------------------------------------------------------------- C23
\* the request pending[k] was made for a session that is no longer the
\* session of the store
Stale(k) ==
    /\ k \in 1..Len(pending)
    /\ ~HasSession \/ Sess.id # pending[k].forSession

\* C23: a scoring response that arrives after the session it was requested
\* for has been discarded or replaced (resetSession or a new createSession)
\* changes nothing in the store: it is never written into an assessment of a
\* different session, including the starter-question assessments of the new
\* session.
C23_StaleResponseIgnored ==
    [][\A k \in 1..Len(pending) :
          Settles(k) /\ Stale(k) => session' = session]_vars

\* what holds: a stale response changes nothing once the session has been
\* discarded and not replaced
C23_StaleResponseIgnoredWithoutSession ==
    [][\A k \in 1..Len(pending) :
          Settles(k) /\ ~HasSession => session' = session]_vars

\* --------------------------------------------------------------------- C24
\* keywordsHit and keywordsMissed of question q's assessment partition q's
\* keywords, and their lengths add up to the number of keywords
KeywordsPartitioned(s, q) ==
    LET a == s.assessments[q.id]
    IN  /\ Range(a.keywordsHit) \cap Range(a.keywordsMissed) = {}
        /\ Range(a.keywordsHit) \cup Range(a.keywordsMissed) = Range(q.keywords)
        /\ Len(a.keywordsHit) + Len(a.keywordsMissed) = Len(q.keywords)

DistinctKeywords(q) ==
    \A a, b \in DOMAIN q.keywords : a # b => q.keywords[a] # q.keywords[b]

\* C24: after any sequence of toggleKeyword calls for a question's keywords,
\* starting from createSession, keywordsHit and keywordsMissed partition the
\* question's keywords (no keyword is in both, every keyword is in exactly
\* one of them), so keywordsHit.length + keywordsMissed.length always equals
\* the question's number of keywords.
C24_KeywordsPartition ==
    HasSession =>
        \A k \in DOMAIN getAllQuestions(Sess) :
            KeywordsPartitioned(Sess, getAllQuestions(Sess)[k])

\* the same for the questions whose keywords are pairwise distinct
C24_PartitionForDistinctKeywords ==
    HasSession =>
        \A k \in DOMAIN getAllQuestions(Sess) :
            DistinctKeywords(getAllQuestions(Sess)[k])
            => KeywordsPartitioned(Sess, getAllQuestions(Sess)[k])

\* no keyword is ever in both lists, and every keyword is in one of them
C24_NoKeywordInBoth ==
    HasSession =>
        \A k \in DOMAIN getAllQuestions(Sess) :
            LET q == getAllQuestions(Sess)[k]
                a == Sess.assessments[q.id]
            IN  /\ Range(a.keywordsHit) \cap Range(a.keywordsMissed) = {}
                /\ Range(a.keywordsHit) \cup Range(a.keywordsMissed)
                      = Range(q.keywords)

\* each toggle of a question with distinct keywords moves exactly one keyword
\* between the two lists of that question and changes nothing else
C24_ToggleMovesOneKeyword ==
    [][HasSession /\ HasSession' /\ Sess'.id = Sess.id
       /\ Sess'.assessments # Sess.assessments
       => /\ Sess' = [Sess EXCEPT !.assessments = Sess'.assessments]
          /\ LET q == getCurrentQuestion(Sess)
                 a == Sess.assessments[q.id]
                 b == Sess'.assessments[q.id]
             IN  /\ Sess'.assessments =
                        [Sess.assessments EXCEPT ![q.id] =
                            [a EXCEPT !.keywordsHit = b.keywordsHit,
                                      !.keywordsMissed = b.keywordsMissed]]
                 /\ DistinctKeywords(q) =>
                      \E kw \in Range(q.keywords) :
                         \/ /\ ~Includes(a.keywordsHit, kw)
                            /\ b.keywordsHit = Append(a.keywordsHit, kw)
                            /\ b.keywordsMissed = FilterOut(a.keywordsMissed, kw)
                            /\ Len(b.keywordsMissed) = Len(a.keywordsMissed) - 1
                         \/ /\ Includes(a.keywordsHit, kw)
                            /\ b.keywordsMissed = Append(a.keywordsMissed, kw)
                            /\ b.keywordsHit = FilterOut(a.keywordsHit, kw)
                            /\ Len(b.keywordsHit) = Len(a.keywordsHit) - 1]_vars

\* --------------------------------------------------------------------- C25
\* C25: the review can be completed only when all scores are validated: at
\* the moment the session status becomes 'completed' (Generate PDF on the
\* review page), every assessment is either marked didNotGetTo or has
\* status 'validated', for every interleaving of the history save with
\* accept, edit and retry-scoring actions.
C25_CompletedOnlyWhenValidated ==
    [][HasSession /\ Sess.status # "completed"
       /\ HasSession' /\ Sess'.status = "completed"
       => allValidated(Sess')]_vars

\* what holds: the button is pressed only when all scores are validated
C25_PressedOnlyWhenValidated ==
    [][~isGeneratingPDF /\ isGeneratingPDF' => allValidated(Sess)]_vars

\* --------------------------------------------------------------------- C26
\* the items the suspended activations of processQueue are scoring
ItemsBeingScored == {queuePc[k].item : k \in {j \in 1..Len(queuePc) : queuePc[j].at = "scoring"}}

\* items are numbered by their enqueue calls: the k-th generateScore call is
\* for item k
StartedInEnqueueOrder == \A k \in 1..Len(started) : started[k] = k

\* C26: ScoringQueue processes its items sequentially: at most one
\* generateScore call is in flight per queue at any time, and items are
\* scored in the order in which they were enqueued (FIFO), under every
\* interleaving of enqueue calls with the processing loop.
C26_SequentialFifo ==
    /\ Cardinality(inFlight) <= 1
    /\ inFlight = ItemsBeingScored
    /\ Len(queuePc) <= 1
    /\ StartedInEnqueueOrder
    /\ \A k \in 1..Len(queue) : queue[k] = Len(started) + k
    /\ \A i \in 1..Len(promises) :
          promises[i] # "pending" => \A j \in 1..i : j \in Range(started)

\* three items were enqueued while the first was being scored; the second is
\* in flight and the third waits
C26_Witness ==
    /\ enqueued = 3
    /\ promises[1] # "pending"
    /\ inFlight = {2}
    /\ queue = <<3>>
    /\ started = <<1, 2>>

\* --------------------------------------------------------------------- C27
\* no item is left in the queue while processing has stopped
NoItemStranded ==
    /\ ~processing => queue = <<>> /\ queuePc = <<>>
    /\ processing => Len(queuePc) = 1

\* a settling generateScore call settles the promise of its own item only
SettlesOwnPromiseOnly ==
    \A i \in 1..Len(promises) :
        promises'[i] # promises[i] =>
            /\ promises[i] = "pending"
            /\ i \in inFlight
            /\ \A j \in 1..Len(promises) : j # i => promises'[j] = promises[j]

\* C27: every promise returned by ScoringQueue.enqueue is eventually settled
\* (resolved with a score or rejected with an error), given that each
\* generateScore call settles: no item is left in the queue while
\* processing has stopped, including items enqueued while another item is
\* being scored or during the pause after it, and an item whose scoring
\* fails rejects only its own promise and does not prevent later items from
\* being scored.
C27_EveryPromiseSettles ==
    /\ \A i \in 1..MaxEnqueued :
          (Len(promises) >= i)
             ~> (Len(promises) >= i /\ promises[i] \in {"resolved", "rejected"})
    /\ []NoItemStranded
    /\ [][SettlesOwnPromiseOnly]_vars

\* the first item failed, the second was enqueued during the pause after it
\* and was scored all the same
C27_Witness ==
    /\ enqueued >= 2
    /\ promises[1] = "rejected"
    /\ promises[2] = "resolved"
    /\ ~processing

\* --------------------------------------------------------------------- C28
HistoryIdsOf(h) == {h[k].id : k \in 1..Len(h)}
Stored(id) == id \in HistoryIdsOf(history)

\* the handler of requests[k] finishes in this step, its body was read
Finishes(k) ==
    /\ k \in 1..Len(requests)
    /\ requests' = Without(requests, k)
    /\ requests[k].req.bodyOk

\* a POST of a stored id replaces that entry in place
ReplacedInPlace(s) ==
    /\ Len(history') = Len(history)
    /\ \A j \in 1..Len(history) :
          history'[j] = IF history[j].id = s.id THEN s ELSE history[j]

\* a POST of a new id inserts it at the front and drops what is beyond the cap
InsertedAtFront(s) ==
    /\ Len(history') = Min(Len(history) + 1, MaxHistory)
    /\ history'[1] = s
    /\ \A j \in 2..Len(history') : history'[j] = history[j - 1]

\* a DELETE of a stored id removes that entry and keeps the others in order
Removed(id) ==
    /\ Len(history') = Len(history) - 1
    /\ \A j \in 1..Len(history') :
          history'[j] = IF j < FindIndex(history, id) THEN history[j]
                        ELSE history[j + 1]

HistoryStepsAsStated ==
    \A k \in 1..Len(requests) :
        Finishes(k) =>
            LET req == requests[k].req
            IN  IF req.method = "POST"
                THEN IF Stored(req.session.id)
                     THEN ReplacedInPlace(req.session)
                     ELSE InsertedAtFront(req.session)
                ELSE IF Stored(req.sessionId)
                     THEN Removed(req.sessionId)
                     ELSE history' = history

\* C28: after any sequence of POST and DELETE requests on /api/history
\* starting from an empty history, the stored history contains at most the
\* cap of sessions (100 in the program) and no two sessions with the same
\* id: a POST whose id is already stored replaces that entry in place
\* without changing the length, a POST with a new id inserts it at the front
\* (dropping the last entry beyond the cap), and a DELETE removes the entry
\* with the given id and changes nothing when the id is not stored.
C28_HistoryBoundedDistinct ==
    /\ [](Len(history) <= MaxHistory)
    /\ [](\A a, b \in 1..Len(history) : a # b => history[a].id # history[b].id)
    /\ [][HistoryStepsAsStated]_vars

\* the history is full, its newest entry was replaced in place by a second
\* POST of its id, and no request is running
C28_Witness ==
    /\ Len(history) = MaxHistory
    /\ history[1].payload = "second"
    /\ history[MaxHistory].payload = "first"
    /\ requests = <<>>
    /\ Len(arrived) = 1 /\ arrived[1].method = "POST"
    /\ arrived[1].session = history[1]
    /\ Len(base) = MaxHistory /\ base[1].id = history[1].id
    /\ base[1].payload = "first"

\* --------------------------------------------------------------------- C29
\* the history after handling the requests of batch b one after the other
\* in the order given by the sequence of positions ord, starting from h
RECURSIVE InOrder(_, _, _, _)
InOrder(h, b, ord, n) ==
    IF n = 0 THEN h
    ELSE Handled(InOrder(h, b, ord, n - 1), b[ord[n]])

Orders(n) == {ord \in [1..n -> 1..n] : \A a, c \in 1..n : a # c => ord[a] # ord[c]}

\* the id a request is about
RequestId(req) == IF req.method = "POST" THEN req.session.id ELSE req.sessionId

\* C29: overlapping requests on /api/history never lose an update: when two
\* POSTs for different session ids (or a POST and a DELETE for different
\* ids) are handled concurrently by the server, the stored history after
\* both complete reflects both requests, as if they had run one after the
\* other. (The history is the one some sequential order of the requests
\* gives; both requests are visible in it when the history was not full,
\* where the cap can drop an entry in the sequential run too.)
C29_NoLostUpdate ==
    requests = <<>> =>
        /\ \E ord \in Orders(Len(arrived)) :
              history = InOrder(base, arrived, ord, Len(arrived))
        /\ Len(arrived) = 2 /\ arrived[1].bodyOk /\ arrived[2].bodyOk
           /\ RequestId(arrived[1]) # RequestId(arrived[2])
           /\ Len(base) < MaxHistory
           => \A k \in 1..2 :
                 IF arrived[k].method = "POST"
                 THEN \E j \in 1..Len(history) : history[j] = arrived[k].session
                 ELSE ~Stored(arrived[k].sessionId)

\* two POSTs for different new ids overlapped (both handlers were running
\* at once) and both sessions are stored
C29_Witness ==
    /\ requests = <<>>
    /\ base = <<>>
    /\ Len(arrived) = 2
    /\ arrived[1].method = "POST" /\ arrived[2].method = "POST"
    /\ arrived[1].bodyOk /\ arrived[2].bodyOk
    /\ arrived[1].session.id # arrived[2].session.id
    /\ Len(history) = 2
    /\ history[1] = arrived[1].session
    /\ history[2] = arrived[2].session

====
